---- MODULE Spec2Model ----
(***************************************************************************)
(* PII Guard Lite: the detection and anonymization engine                  *)
(* (extension-lite/src/pii) and the proxy's entity configuration.          *)
(*                                                                         *)
(* Strings are sequences of one-character strings; offsets are the         *)
(* 0-based JavaScript offsets, so text[i] of the code is text[i + 1] here. *)
(* Scores are fixed-point hundredths (0.85 is 85, 1.0 is 100).             *)
(***************************************************************************)
EXTENDS Integers, Sequences, FiniteSets, TLC

VARIABLES
    text,          \* the input text of the call
    entities,      \* the candidate list handed to resolveOverlaps / anonymize
    resolved,      \* what resolveOverlaps returned inside anonymize
    result,        \* what anonymize returned: [text, entities, count]
    pc,            \* position of the caller
    nerResults,    \* mapNerResults: the token list it is given
    tokIdx,        \* mapNerResults: 1-based index of the next token of the loop
    currentEntity, \* mapNerResults: <<>> for null, <<e>> for an open entity e
    nerEntities,   \* mapNerResults: its local list `entities`
    patIdx,        \* detectWithRegex: 1-based index of the pattern of the for loop
    lastIndex,     \* lastIndex of each pattern's regex object (shared by all calls)
    regexEntities, \* detectWithRegex: its local list `entities`
    config,        \* the entity configuration: Config.Entities of the proxy
    worker,        \* the offscreen worker: its module variables and the message it handles
    proxy,         \* the proxy's POST /anonymize: the request and its answer
    page,          \* the page script: the intercepted request and pendingRequests
    bg             \* the background service worker: enabled, counters, the reply

anonVars == <<text, entities, resolved, result>>
nerVars == <<nerResults, tokIdx, currentEntity, nerEntities>>
regexVars == <<patIdx, lastIndex, regexEntities>>
vars == <<text, entities, resolved, result, pc, nerResults, tokIdx, currentEntity,
          nerEntities, patIdx, lastIndex, regexEntities, config, worker, proxy,
          page, bg>>
shellVars == <<worker, proxy, page, bg>>

(***************************************************************************)
(* Bounds of the model                                                     *)
(***************************************************************************)
MaxTextLen == 4
MaxEntities == 3
MaxTokens == 3
MaxSegments == 2
MaxCalls == 2
MaxRequests == 2
MaxLog == 2

\* anonymize has not returned.
NoResult == [text |-> <<>>, entities |-> <<>>, count |-> -1]

\* mapNerResults not running.
NerIdle ==
    /\ nerResults = <<>>
    /\ tokIdx = 0
    /\ currentEntity = <<>>
    /\ nerEntities = <<>>

\* anonymize not called.
AnonIdle ==
    /\ entities = <<>>
    /\ resolved = <<>>
    /\ result = NoResult

\* The offscreen worker once its script has run: loadNerModel() has been
\* called and is waiting for the import, no detect message has arrived.
WorkerStart ==
    [nerLoading |-> TRUE, nerReady |-> FALSE, nerError |-> FALSE,
     pc |-> "idle", nerOutcome |-> "none", responses |-> 0, response |-> NoResult]

\* The proxy before any POST /anonymize.
ProxyStart ==
    [reqText |-> <<>>, status |-> 0, body |-> NoResult, presidioCalls |-> 0]

\* The page script once it has run: no message sent, nothing pending, no
\* intercepted call yet.
PageStart ==
    [messageIdCounter |-> 0, pendingRequests |-> {}, posted |-> {}, timers |-> {},
     inbox |-> {}, requests |-> <<>>]

\* The background once its script has run, before any message.
NoReply == [state |-> "pending", value |-> <<>>]
BgStart ==
    [enabled |-> TRUE, totalRedactions |-> 0, redactionLog |-> <<>>,
     detectorReady |-> FALSE,
     badge |-> [color |-> "#f59e0b", text |-> <<".", ".", ".">>],
     reqText |-> <<>>, outcome |-> "none", detected |-> NoResult, reply |-> NoReply]

\* Nothing outside the detection engine has run.
ShellIdle ==
    /\ worker = WorkerStart
    /\ proxy = ProxyStart
    /\ page = PageStart
    /\ bg = BgStart

Min(a, b) == IF a < b THEN a ELSE b
Max(a, b) == IF a > b THEN a ELSE b

(***************************************************************************)
(* String.prototype.substring: both indices are clamped to [0, length]    *)
(* and swapped when start > end.                                           *)
(***************************************************************************)
substring(s, a, b) ==
    LET ca == Min(Max(a, 0), Len(s))
        cb == Min(Max(b, 0), Len(s))
        lo == Min(ca, cb)
        hi == Max(ca, cb)
    IN  SubSeq(s, lo + 1, hi)

substringFrom(s, a) == substring(s, a, Len(s))

(***************************************************************************)
(* Entity type names, as the strings the code uses                         *)
(***************************************************************************)
PERSON == <<"P", "E", "R", "S", "O", "N">>
LOCATION == <<"L", "O", "C", "A", "T", "I", "O", "N">>
ORGANIZATION == <<"O", "R", "G", "A", "N", "I", "Z", "A", "T", "I", "O", "N">>
IN_PAN == <<"I", "N", "_", "P", "A", "N">>
CREDIT_CARD == <<"C", "R", "E", "D", "I", "T", "_", "C", "A", "R", "D">>
EMAIL_ADDRESS == <<"E", "M", "A", "I", "L", "_", "A", "D", "D", "R", "E", "S", "S">>
PHONE_NUMBER == <<"P", "H", "O", "N", "E", "_", "N", "U", "M", "B", "E", "R">>
IN_AADHAAR == <<"I", "N", "_", "A", "A", "D", "H", "A", "A", "R">>
US_SSN == <<"U", "S", "_", "S", "S", "N">>
IP_ADDRESS == <<"I", "P", "_", "A", "D", "D", "R", "E", "S", "S">>
IN_UPI_ID == <<"I", "N", "_", "U", "P", "I", "_", "I", "D">>
IN_PASSPORT == <<"I", "N", "_", "P", "A", "S", "S", "P", "O", "R", "T">>
DATE_TIME == <<"D", "A", "T", "E", "_", "T", "I", "M", "E">>

(***************************************************************************)
(* proxy/config.go: the entity configuration                               *)
(***************************************************************************)
defaultEntities ==
    [e \in {PERSON, EMAIL_ADDRESS, PHONE_NUMBER, IN_AADHAAR, IN_PAN, CREDIT_CARD,
            LOCATION, IP_ADDRESS, IN_UPI_ID, DATE_TIME, US_SSN, IN_PASSPORT} |-> TRUE]

\* NewConfig(): a copy of defaultEntities.
ConfigIdle == config = defaultEntities

(***************************************************************************)
(* anonymizer.js: resolveOverlaps                                          *)
(***************************************************************************)
\* A comparator that looks at the start only.
SortCompareStartOnly(a, b) == a.start - b.start

\* The comparator of the sort: start ascending, then score descending.
SortCompare(a, b) ==
    IF a.start # b.start THEN a.start - b.start ELSE b.score - a.score

\* Array.prototype.sort is stable: an element goes after every element that
\* does not compare greater than it.
RECURSIVE InsertSorted(_, _)
InsertSorted(sorted, x) ==
    IF sorted = <<>> THEN <<x>>
    ELSE IF SortCompare(sorted[Len(sorted)], x) <= 0 THEN Append(sorted, x)
    ELSE Append(InsertSorted(SubSeq(sorted, 1, Len(sorted) - 1), x),
                sorted[Len(sorted)])

RECURSIVE StableSort(_)
StableSort(s) ==
    IF s = <<>> THEN <<>>
    ELSE InsertSorted(StableSort(SubSeq(s, 1, Len(s) - 1)), s[Len(s)])

\* The list left in the caller's order (the sort forgotten).
UnsortedEntities(es) == es

SortedEntities(es) == StableSort(es)

\* The comparison without its tie-break on span length.
CurrWinsScoreOnly(curr, prev) == curr.score > prev.score

\* curr replaces prev: strictly higher score, or equal score and longer span.
CurrWins(curr, prev) ==
    \/ curr.score > prev.score
    \/ /\ curr.score = prev.score
       /\ (curr.end - curr.start) > (prev.end - prev.start)

\* A sweep that merges: the winner of an overlap takes the start of the
\* entity it replaces.
RECURSIVE SweepMerging(_, _, _)
SweepMerging(sorted, i, res) ==
    IF i > Len(sorted) THEN res
    ELSE LET prev == res[Len(res)]
             curr == sorted[i]
         IN  IF curr.start < prev.end
             THEN IF CurrWins(curr, prev)
                  THEN SweepMerging(sorted, i + 1,
                                    [res EXCEPT ![Len(res)] =
                                        [curr EXCEPT !.start = prev.start]])
                  ELSE SweepMerging(sorted, i + 1, res)
             ELSE SweepMerging(sorted, i + 1, Append(res, curr))

\* The sweep loop, i being the 1-based index of sorted[i - 1] of the code.
RECURSIVE Sweep(_, _, _)
Sweep(sorted, i, res) ==
    IF i > Len(sorted) THEN res
    ELSE LET prev == res[Len(res)]
             curr == sorted[i]
         IN  IF curr.start < prev.end
             THEN IF CurrWins(curr, prev)
                  THEN Sweep(sorted, i + 1, [res EXCEPT ![Len(res)] = curr])
                  ELSE Sweep(sorted, i + 1, res)
             ELSE Sweep(sorted, i + 1, Append(res, curr))

resolveOverlaps(es) ==
    IF Len(es) <= 1 THEN es
    ELSE LET sorted == SortedEntities(es)
         IN  Sweep(sorted, 2, <<sorted[1]>>)

(***************************************************************************)
(* anonymizer.js: anonymize                                                *)
(***************************************************************************)
\* The placeholder without its angle brackets.
TokenBare(entity_type) == entity_type

\* `<${e.entity_type}>`
Token(entity_type) == <<"<">> \o entity_type \o <<">">>

\* A splice that skips one character too many after the span.
SpliceTokenSkipOne(res, e) ==
    substring(res, 0, e.start) \o Token(e.entity_type) \o substringFrom(res, e.end + 1)

\* result.substring(0, e.start) + token + result.substring(e.end)
SpliceToken(res, e) ==
    substring(res, 0, e.start) \o Token(e.entity_type) \o substringFrom(res, e.end)

ManifestEntry(e) ==
    [entity_type |-> e.entity_type,
     start |-> e.start,
     end |-> e.start + Len(Token(e.entity_type)),
     score |-> e.score,
     original_text |-> e.original_text,
     new_value |-> Token(e.entity_type)]

\* The entry added at the back of the manifest instead of the front.
Push(manifest, entry) == Append(manifest, entry)

\* manifest.unshift(entry)
Unshift(manifest, entry) == <<entry>> \o manifest

\* The loop from i = resolved.length - 1 down to 0 (here Len down to 1):
\* the working text and the manifest (unshift puts the entry in front).
RECURSIVE AnonymizeLoop(_, _, _, _)
AnonymizeLoop(res, i, working, manifest) ==
    IF i < 1 THEN [text |-> working, entities |-> manifest, count |-> Len(manifest)]
    ELSE AnonymizeLoop(res, i - 1, SpliceToken(working, res[i]),
                       Unshift(manifest, ManifestEntry(res[i])))

anonymize(t, es) ==
    IF Len(es) = 0 THEN [text |-> t, entities |-> <<>>, count |-> 0]
    ELSE LET res == resolveOverlaps(es)
         IN  AnonymizeLoop(res, Len(res), t, <<>>)

(***************************************************************************)
(* Characters                                                              *)
(***************************************************************************)
DigitSeq == <<"0", "1", "2", "3", "4", "5", "6", "7", "8", "9">>
UpperSeq == <<"A", "B", "C", "D", "E", "F", "G", "H", "I", "J", "K", "L", "M",
              "N", "O", "P", "Q", "R", "S", "T", "U", "V", "W", "X", "Y", "Z">>
LowerSeq == <<"a", "b", "c", "d", "e", "f", "g", "h", "i", "j", "k", "l", "m",
              "n", "o", "p", "q", "r", "s", "t", "u", "v", "w", "x", "y", "z">>
Range(s) == {s[i] : i \in 1..Len(s)}
Digit == Range(DigitSeq)                       \* \d
Upper == Range(UpperSeq)                       \* A-Z
Lower == Range(LowerSeq)                       \* a-z
Alnum == Upper \cup Lower \cup Digit           \* a-zA-Z0-9
WordChar == Alnum \cup {"_"}                   \* \w, which decides \b
Space == {" ", "\t", "\n", "\r", "\f"}         \* \s
DigitsFrom(lo, hi) == {DigitSeq[d + 1] : d \in lo..hi}

\* parseInt of one digit character
DigitValue(c) == (CHOOSE i \in 1..10 : DigitSeq[i] = c) - 1

\* String.prototype.toLowerCase
LowerChar(c) ==
    IF c \in Upper THEN LowerSeq[CHOOSE i \in 1..26 : UpperSeq[i] = c] ELSE c
toLowerCase(s) == [i \in 1..Len(s) |-> LowerChar(s[i])]

\* String.prototype.includes
includes(s, word) ==
    \E i \in 0..(Len(s) - Len(word)) : substring(s, i, i + Len(word)) = word

\* s.replace(/\D/g, "")
RECURSIVE StripNonDigits(_)
StripNonDigits(s) ==
    IF s = <<>> THEN <<>>
    ELSE IF Head(s) \in Digit THEN <<Head(s)>> \o StripNonDigits(Tail(s))
    ELSE StripNonDigits(Tail(s))

\* parseInt(digits, 10) of a string of digits
RECURSIVE parseInt(_)
parseInt(s) ==
    IF s = <<>> THEN 0
    ELSE 10 * parseInt(SubSeq(s, 1, Len(s) - 1)) + DigitValue(s[Len(s)])

(***************************************************************************)
(* Regular expressions as the source writes them, matched the way a        *)
(* backtracking matcher does: MatchNode gives the end offsets of the       *)
(* matches of a node at offset i, in the order backtracking tries them.    *)
(***************************************************************************)
Unbounded == -1
Cls(S) == [k |-> "cls", set |-> S]
Chr(c) == [k |-> "cls", set |-> {c}]
WB == [k |-> "wb"]                                         \* \b
Cat(parts) == [k |-> "cat", parts |-> parts]
Alt(alts) == [k |-> "alt", alts |-> alts]
Rep(n, lo, hi) == [k |-> "rep", of |-> n, min |-> lo, max |-> hi]   \* greedy {lo,hi}
Opt(n) == Rep(n, 0, 1)                                     \* ?
Plus(n) == Rep(n, 1, Unbounded)                            \* +
Times(n, c) == Rep(n, c, c)                                \* {c}
Lit(s) == Cat([i \in 1..Len(s) |-> Chr(s[i])])
AltLits(ss) == Alt([i \in 1..Len(ss) |-> Lit(ss[i])])

IsWordAt(t, i) == i >= 0 /\ i < Len(t) /\ t[i + 1] \in WordChar

RECURSIVE MatchNode(_, _, _)
RECURSIVE MatchEach(_, _, _, _)
RECURSIVE MatchCat(_, _, _, _)
RECURSIVE MatchAlt(_, _, _, _)
RECURSIVE MatchRep(_, _, _, _)

MatchNode(n, t, i) ==
    CASE n.k = "cls" -> IF i < Len(t) /\ t[i + 1] \in n.set THEN <<i + 1>> ELSE <<>>
      [] n.k = "wb" -> IF IsWordAt(t, i - 1) # IsWordAt(t, i) THEN <<i>> ELSE <<>>
      [] n.k = "cat" -> MatchCat(n.parts, 1, t, <<i>>)
      [] n.k = "alt" -> MatchAlt(n.alts, 1, t, i)
      [] n.k = "rep" -> MatchRep(n, 0, t, i)

\* The matches of n from each offset of `starts`, in order.
MatchEach(n, t, starts, j) ==
    IF j > Len(starts) THEN <<>>
    ELSE MatchNode(n, t, starts[j]) \o MatchEach(n, t, starts, j + 1)

MatchCat(parts, p, t, starts) ==
    IF p > Len(parts) \/ starts = <<>> THEN starts
    ELSE MatchCat(parts, p + 1, t, MatchEach(parts[p], t, starts, 1))

MatchAlt(alts, a, t, i) ==
    IF a > Len(alts) THEN <<>>
    ELSE MatchNode(alts[a], t, i) \o MatchAlt(alts, a + 1, t, i)

\* Greedy: one more iteration is tried before stopping; an iteration that
\* consumes nothing is not repeated.
RECURSIVE MatchRepEach(_, _, _, _, _)
MatchRepEach(n, count, t, ends, j) ==
    IF j > Len(ends) THEN <<>>
    ELSE MatchRep(n, count, t, ends[j]) \o MatchRepEach(n, count, t, ends, j + 1)

MatchRep(n, count, t, i) ==
    LET once == IF n.max = Unbounded \/ count < n.max
                THEN SelectSeq(MatchNode(n.of, t, i), LAMBDA e : e > i)
                ELSE <<>>
        more == MatchRepEach(n, count + 1, t, once, 1)
        stop == IF count >= n.min THEN <<i>> ELSE <<>>
    IN  more \o stop

\* RegExp.prototype.exec of a global regex from lastIndex: the leftmost
\* offset with a match and the first match there; <<>> stands for null.
ExecFrom(re, t, i) ==
    LET hits == {j \in i..Len(t) : MatchNode(re, t, j) # <<>>}
    IN  IF hits = {} THEN <<>>
        ELSE LET first == CHOOSE j \in hits : \A h \in hits : j <= h
             IN  <<[index |-> first, end |-> MatchNode(re, t, first)[1]]>>

\* RegExp.prototype.test of a pattern anchored with ^ and $
TestWhole(re, s) == \E j \in 1..Len(MatchNode(re, s, 0)) : MatchNode(re, s, 0)[j] = Len(s)

(***************************************************************************)
(* validators.js                                                           *)
(***************************************************************************)
\* The sum of the digits, none doubled.
RECURSIVE LuhnSumNoDouble(_, _, _)
LuhnSumNoDouble(digits, i, alt) ==
    IF i < 1 THEN 0
    ELSE DigitValue(digits[i]) + LuhnSumNoDouble(digits, i - 1, ~alt)

\* The loop of luhn from i = digits.length - 1 down to 0 (here Len down to 1).
RECURSIVE LuhnSum(_, _, _)
LuhnSum(digits, i, alt) ==
    IF i < 1 THEN 0
    ELSE LET d == DigitValue(digits[i])
             doubled == IF 2 * d > 9 THEN 2 * d - 9 ELSE 2 * d
         IN  (IF alt THEN doubled ELSE d) + LuhnSum(digits, i - 1, ~alt)

luhn(num) ==
    LET digits == StripNonDigits(num)
    IN  IF Len(digits) < 13 \/ Len(digits) > 19 THEN FALSE
        ELSE LuhnSum(digits, Len(digits), FALSE) % 10 = 0

VerhoeffD ==
    <<<<0, 1, 2, 3, 4, 5, 6, 7, 8, 9>>,
      <<1, 2, 3, 4, 0, 6, 7, 8, 9, 5>>,
      <<2, 3, 4, 0, 1, 7, 8, 9, 5, 6>>,
      <<3, 4, 0, 1, 2, 8, 9, 5, 6, 7>>,
      <<4, 0, 1, 2, 3, 9, 5, 6, 7, 8>>,
      <<5, 9, 8, 7, 6, 0, 4, 3, 2, 1>>,
      <<6, 5, 9, 8, 7, 1, 0, 4, 3, 2>>,
      <<7, 6, 5, 9, 8, 2, 1, 0, 4, 3>>,
      <<8, 7, 6, 5, 9, 3, 2, 1, 0, 4>>,
      <<9, 8, 7, 6, 5, 4, 3, 2, 1, 0>>>>

VerhoeffP ==
    <<<<0, 1, 2, 3, 4, 5, 6, 7, 8, 9>>,
      <<1, 5, 7, 6, 2, 8, 3, 0, 9, 4>>,
      <<5, 8, 0, 3, 7, 9, 6, 1, 4, 2>>,
      <<8, 9, 1, 6, 0, 4, 3, 5, 2, 7>>,
      <<9, 4, 5, 3, 1, 2, 6, 8, 7, 0>>,
      <<4, 2, 8, 6, 5, 7, 3, 9, 0, 1>>,
      <<2, 7, 9, 3, 8, 0, 6, 4, 1, 5>>,
      <<7, 0, 4, 6, 9, 1, 3, 2, 5, 8>>>>

Reverse(s) == [i \in 1..Len(s) |-> s[Len(s) + 1 - i]]

\* c = _d[c][_p[i % 8][digit]] for i = 0 .. length - 1 over the reversed digits
RECURSIVE VerhoeffFold(_, _, _)
VerhoeffFold(reversedDigits, i, c) ==
    IF i >= Len(reversedDigits) THEN c
    ELSE VerhoeffFold(reversedDigits, i + 1,
             VerhoeffD[c + 1][VerhoeffP[(i % 8) + 1][DigitValue(reversedDigits[i + 1]) + 1] + 1])

\* The checksum without the rule against palindromes.
verhoeffNoPalindromeRule(num) ==
    LET digits == StripNonDigits(num)
    IN  IF Len(digits) # 12 THEN FALSE
        ELSE IF DigitValue(digits[1]) < 2 THEN FALSE
        ELSE VerhoeffFold(Reverse(digits), 0, 0) = 0

verhoeff(num) ==
    LET digits == StripNonDigits(num)
    IN  IF Len(digits) # 12 THEN FALSE
        ELSE IF DigitValue(digits[1]) < 2 THEN FALSE
        ELSE IF digits = Reverse(digits) THEN FALSE
        ELSE VerhoeffFold(Reverse(digits), 0, 0) = 0

\* /^[A-Z]{5}\d{4}[A-Z]$/.test(pan)
validatePAN(pan) ==
    TestWhole(Cat(<<Times(Cls(Upper), 5), Times(Cls(Digit), 4), Cls(Upper)>>), pan)

\* The area rule with > 900 in place of >= 900.
validateSSNAbove900(ssn) ==
    LET digits == StripNonDigits(ssn)
        area == parseInt(substring(digits, 0, 3))
        group == parseInt(substring(digits, 3, 5))
        serial == parseInt(substring(digits, 5, 9))
    IN  IF Len(digits) # 9 THEN FALSE
        ELSE IF area = 0 \/ area = 666 \/ area > 900 THEN FALSE
        ELSE IF group = 0 THEN FALSE
        ELSE IF serial = 0 THEN FALSE
        ELSE TRUE

validateSSN(ssn) ==
    LET digits == StripNonDigits(ssn)
        area == parseInt(substring(digits, 0, 3))
        group == parseInt(substring(digits, 3, 5))
        serial == parseInt(substring(digits, 5, 9))
    IN  IF Len(digits) # 9 THEN FALSE
        ELSE IF area = 0 \/ area = 666 \/ area >= 900 THEN FALSE
        ELSE IF group = 0 THEN FALSE
        ELSE IF serial = 0 THEN FALSE
        ELSE TRUE

\* (match) => match.replace(/\D/g, "").length >= 10
tenDigits(match) == Len(StripNonDigits(match)) >= 10

(***************************************************************************)
(* regex-patterns.js: PATTERNS and contextBoost                            *)
(***************************************************************************)

UPI_SUFFIXES ==
    <<<<"y", "b", "l">>,
      <<"o", "k", "h", "d", "f", "c", "b", "a", "n", "k">>,
      <<"o", "k", "i", "c", "i", "c", "i">>,
      <<"o", "k", "a", "x", "i", "s">>, <<"o", "k", "s", "b", "i">>,
      <<"a", "p", "l">>, <<"i", "b", "l">>, <<"s", "b", "i">>,
      <<"a", "x", "i", "s", "b">>, <<"i", "c", "i", "c", "i">>,
      <<"h", "d", "f", "c">>, <<"p", "a", "y", "t", "m">>, <<"u", "p", "i">>,
      <<"g", "p", "a", "y">>, <<"p", "h", "o", "n", "e", "p", "e">>,
      <<"f", "r", "e", "e", "c", "h", "a", "r", "g", "e">>,
      <<"a", "i", "r", "t", "e", "l">>, <<"j", "i", "o">>,
      <<"k", "o", "t", "a", "k">>,
      <<"b", "a", "r", "o", "d", "a", "m", "p", "a", "y">>,
      <<"d", "b", "s">>, <<"f", "e", "d", "e", "r", "a", "l">>,
      <<"i", "n", "d", "u", "s">>, <<"r", "b", "l">>,
      <<"y", "e", "s", "b", "a", "n", "k">>, <<"c", "i", "t", "i">>,
      <<"h", "s", "b", "c">>, <<"s", "c">>, <<"i", "d", "b", "i">>,
      <<"p", "n", "b">>, <<"b", "o", "b">>, <<"c", "a", "n", "a", "r", "a">>,
      <<"u", "n", "i", "o", "n", "b", "a", "n", "k">>>>

EmailContext ==
    <<<<"e", "m", "a", "i", "l">>, <<"m", "a", "i", "l">>,
      <<"c", "o", "n", "t", "a", "c", "t">>, <<"s", "e", "n", "d">>,
      <<"a", "d", "d", "r", "e", "s", "s">>>>

PhoneInContext ==
    <<<<"p", "h", "o", "n", "e">>, <<"c", "a", "l", "l">>,
      <<"m", "o", "b", "i", "l", "e">>, <<"n", "u", "m", "b", "e", "r">>,
      <<"c", "o", "n", "t", "a", "c", "t">>, <<"t", "e", "l">>,
      <<"w", "h", "a", "t", "s", "a", "p", "p">>>>

PhoneUsContext ==
    <<<<"p", "h", "o", "n", "e">>, <<"c", "a", "l", "l">>,
      <<"n", "u", "m", "b", "e", "r">>,
      <<"c", "o", "n", "t", "a", "c", "t">>, <<"t", "e", "l">>>>

CreditCardContext ==
    <<<<"c", "a", "r", "d">>, <<"c", "r", "e", "d", "i", "t">>,
      <<"d", "e", "b", "i", "t">>, <<"v", "i", "s", "a">>,
      <<"m", "a", "s", "t", "e", "r", "c", "a", "r", "d">>,
      <<"a", "m", "e", "x">>, <<"p", "a", "y", "m", "e", "n", "t">>>>

AadhaarContext ==
    <<<<"a", "a", "d", "h", "a", "a", "r">>,
      <<"a", "a", "d", "h", "a", "r">>, <<"u", "i", "d">>,
      <<"u", "i", "d", "a", "i">>,
      <<"i", "d", "e", "n", "t", "i", "t", "y">>>>

PanContext ==
    <<<<"p", "a", "n">>,
      <<"i", "n", "c", "o", "m", "e", " ", "t", "a", "x">>,
      <<"t", "a", "x">>,
      <<"p", "e", "r", "m", "a", "n", "e", "n", "t", " ", "a", "c", "c", "o", "u", "n", "t">>>>

SsnContext ==
    <<<<"s", "s", "n">>,
      <<"s", "o", "c", "i", "a", "l", " ", "s", "e", "c", "u", "r", "i", "t", "y">>,
      <<"s", "o", "c", "i", "a", "l">>>>

IpContext ==
    <<<<"i", "p">>, <<"a", "d", "d", "r", "e", "s", "s">>,
      <<"s", "e", "r", "v", "e", "r">>, <<"h", "o", "s", "t">>,
      <<"n", "e", "t", "w", "o", "r", "k">>>>

UpiContext ==
    <<<<"u", "p", "i">>, <<"p", "a", "y", "m", "e", "n", "t">>,
      <<"p", "a", "y">>, <<"g", "p", "a", "y">>,
      <<"p", "h", "o", "n", "e", "p", "e">>, <<"p", "a", "y", "t", "m">>,
      <<"v", "p", "a">>>>

PassportContext ==
    <<<<"p", "a", "s", "s", "p", "o", "r", "t">>,
      <<"t", "r", "a", "v", "e", "l">>, <<"v", "i", "s", "a">>,
      <<"i", "m", "m", "i", "g", "r", "a", "t", "i", "o", "n">>>>

D(c) == Times(Cls(Digit), c)                   \* \d{c}
SpaceDash == Cls(Space \cup {"-"})             \* [\s-]
SpaceDotDash == Cls(Space \cup {".", "-"})     \* [\s.-]

\* /\b[a-zA-Z0-9._%+-]+@[a-zA-Z0-9.-]+\.[a-zA-Z]{2,}\b/g
EmailRegex ==
    Cat(<<WB, Plus(Cls(Alnum \cup {".", "_", "%", "+", "-"})), Chr("@"),
          Plus(Cls(Alnum \cup {".", "-"})), Chr("."),
          Rep(Cls(Upper \cup Lower), 2, Unbounded), WB>>)

\* /(?:\+91[\s-]?)?[6-9]\d{4}[\s-]?\d{5}\b/g
PhoneInRegex ==
    Cat(<<Opt(Cat(<<Lit(<<"+", "9", "1">>), Opt(SpaceDash)>>)),
          Cls(DigitsFrom(6, 9)), D(4), Opt(SpaceDash), D(5), WB>>)

\* /(?:\+1[\s-]?)?\(?\d{3}\)?[\s.-]?\d{3}[\s.-]?\d{4}\b/g
PhoneUsRegex ==
    Cat(<<Opt(Cat(<<Lit(<<"+", "1">>), Opt(SpaceDash)>>)),
          Opt(Chr("(")), D(3), Opt(Chr(")")), Opt(SpaceDotDash), D(3),
          Opt(SpaceDotDash), D(4), WB>>)

\* /\b\d{4}[\s-]?\d{4}[\s-]?\d{4}[\s-]?\d{4}\b/g
CreditCardRegex ==
    Cat(<<WB, D(4), Opt(SpaceDash), D(4), Opt(SpaceDash), D(4), Opt(SpaceDash),
          D(4), WB>>)

\* /\b[2-9]\d{3}[\s-]?\d{4}[\s-]?\d{4}\b/g
AadhaarRegex ==
    Cat(<<WB, Cls(DigitsFrom(2, 9)), D(3), Opt(SpaceDash), D(4), Opt(SpaceDash),
          D(4), WB>>)

\* /\b[A-Z]{5}\d{4}[A-Z]\b/g
PanRegex == Cat(<<WB, Times(Cls(Upper), 5), D(4), Cls(Upper), WB>>)

\* /\b\d{3}-\d{2}-\d{4}\b/g
SsnRegex == Cat(<<WB, D(3), Chr("-"), D(2), Chr("-"), D(4), WB>>)

\* (?:25[0-5]|2[0-4]\d|[01]?\d\d?)
Octet ==
    Alt(<<Cat(<<Chr("2"), Chr("5"), Cls(DigitsFrom(0, 5))>>),
          Cat(<<Chr("2"), Cls(DigitsFrom(0, 4)), Cls(Digit)>>),
          Cat(<<Opt(Cls({"0", "1"})), Cls(Digit), Opt(Cls(Digit))>>)>>)

\* /\b(?:(?:25[0-5]|2[0-4]\d|[01]?\d\d?)\.){3}(?:25[0-5]|2[0-4]\d|[01]?\d\d?)\b/g
IpRegex == Cat(<<WB, Times(Cat(<<Octet, Chr(".")>>), 3), Octet, WB>>)

\* new RegExp(`\\b[a-zA-Z0-9._-]+@(?:${UPI_SUFFIXES})\\b`, "g")
UpiRegex ==
    Cat(<<WB, Plus(Cls(Alnum \cup {".", "_", "-"})), Chr("@"), AltLits(UPI_SUFFIXES),
          WB>>)

\* /\b[A-Z][1-9]\d{6}\b/g
PassportRegex == Cat(<<WB, Cls(Upper), Cls(DigitsFrom(1, 9)), D(6), WB>>)

Rule(entity, regex, validate, score, context) ==
    [entity |-> entity, regex |-> regex, validate |-> validate, score |-> score,
     context |-> context]

\* validate is the name of the rule's validator, "null" for none.
PATTERNS ==
    <<Rule(EMAIL_ADDRESS, EmailRegex, "null", 100, EmailContext),
      Rule(PHONE_NUMBER, PhoneInRegex, "tenDigits", 85, PhoneInContext),
      Rule(PHONE_NUMBER, PhoneUsRegex, "tenDigits", 80, PhoneUsContext),
      Rule(CREDIT_CARD, CreditCardRegex, "luhn", 95, CreditCardContext),
      Rule(IN_AADHAAR, AadhaarRegex, "verhoeff", 95, AadhaarContext),
      Rule(IN_PAN, PanRegex, "validatePAN", 90, PanContext),
      Rule(US_SSN, SsnRegex, "validateSSN", 90, SsnContext),
      Rule(IP_ADDRESS, IpRegex, "null", 90, IpContext),
      Rule(IN_UPI_ID, UpiRegex, "null", 85, UpiContext),
      Rule(IN_PASSPORT, PassportRegex, "null", 70, PassportContext)>>

\* pattern.validate(matchedText)
Validate(name, matchedText) ==
    CASE name = "tenDigits" -> tenDigits(matchedText)
      [] name = "luhn" -> luhn(matchedText)
      [] name = "verhoeff" -> verhoeff(matchedText)
      [] name = "validatePAN" -> validatePAN(matchedText)
      [] name = "validateSSN" -> validateSSN(matchedText)

ContextWindow == 50
ContextBoostValue == 10

\* The keywords looked for in the whole text, not in the window.
contextBoostWholeText(t, matchStart, matchEnd, contextWords) ==
    IF Len(contextWords) = 0 THEN 0
    ELSE IF \E w \in 1..Len(contextWords) : includes(toLowerCase(t), contextWords[w])
         THEN ContextBoostValue
         ELSE 0

contextBoost(t, matchStart, matchEnd, contextWords) ==
    IF Len(contextWords) = 0 THEN 0
    ELSE LET windowStart == Max(0, matchStart - ContextWindow)
             windowEnd == Min(Len(t), matchEnd + ContextWindow)
             window == toLowerCase(substring(t, windowStart, windowEnd))
         IN  IF \E w \in 1..Len(contextWords) : includes(window, contextWords[w])
             THEN ContextBoostValue
             ELSE 0

(***************************************************************************)
(* detector.js: detectWithRegex                                            *)
(***************************************************************************)
\* pattern.regex.exec(text) with the regex's lastIndex at li
Exec(pattern, t, li) == ExecFrom(pattern.regex, t, li)

\* The rule's validator ignored.
PassesAlways(pattern, matchedText) == TRUE

\* !(pattern.validate && !pattern.validate(matchedText))
Passes(pattern, matchedText) ==
    ~(pattern.validate # "null" /\ ~Validate(pattern.validate, matchedText))

\* The score without the cap at 1.0.
ScoreUncapped(pattern, t, start, end) ==
    pattern.score + contextBoost(t, start, end, pattern.context)

\* Math.min(1.0, pattern.score + boost)
Score(pattern, t, start, end) ==
    Min(100, pattern.score + contextBoost(t, start, end, pattern.context))

\* A candidate that keeps the matched text and ends one character early.
RegexCandidateShortEnd(pattern, t, m) ==
    [entity_type |-> pattern.entity,
     start |-> m.index,
     end |-> m.end - 1,
     score |-> Score(pattern, t, m.index, m.end),
     original_text |-> substring(t, m.index, m.end)]

\* The object pushed for match m = [index, end] of the pattern.
RegexCandidate(pattern, t, m) ==
    [entity_type |-> pattern.entity,
     start |-> m.index,
     end |-> m.end,
     score |-> Score(pattern, t, m.index, m.end),
     original_text |-> substring(t, m.index, m.end)]

\* The while loop of one pattern, from lastIndex li.
RECURSIVE ScanPattern(_, _, _, _)
ScanPattern(pattern, t, li, ents) ==
    LET e == Exec(pattern, t, li)
    IN  IF e = <<>> THEN ents
        ELSE ScanPattern(pattern, t, e[1].end,
                 IF Passes(pattern, substring(t, e[1].index, e[1].end))
                 THEN Append(ents, RegexCandidate(pattern, t, e[1]))
                 ELSE ents)

\* The for loop over PATTERNS; every scan starts at lastIndex 0.
RECURSIVE ScanPatterns(_, _, _)
ScanPatterns(t, p, ents) ==
    IF p > Len(PATTERNS) THEN ents
    ELSE ScanPatterns(t, p + 1, ScanPattern(PATTERNS[p], t, 0, ents))

detectWithRegex(t) == ScanPatterns(t, 1, <<>>)

(***************************************************************************)
(* detectWithRegex, one action per step of its loops                       *)
(***************************************************************************)
\* Texts: up to MaxSegments pieces joined by single spaces.
Segments ==
    <<<<"1", "2", "3", "-", "4", "5", "-", "6", "7", "8", "9">>,
      <<"0", "0", "0", "-", "1", "2", "-", "3", "4", "5", "6">>,
      <<"s", "s", "n">>,
      <<"a", "@", "b", ".", "c", "o">>,
      <<"M", "a", "i", "l">>,
      <<"9", "8", "7", "6", "5", "4", "3", "2", "1", "0">>>>

RECURSIVE Join(_)
Join(segs) ==
    IF segs = <<>> THEN <<>>
    ELSE IF Len(segs) = 1 THEN segs[1]
    ELSE segs[1] \o <<" ">> \o Join(Tail(segs))

RegexTexts ==
    UNION {{Join([i \in 1..n |-> Segments[f[i]]]) : f \in [1..n -> 1..Len(Segments)]} :
              n \in 0..MaxSegments}

\* No regex object has been used yet: lastIndex is 0.
RegexIdle ==
    /\ patIdx = 0
    /\ lastIndex = [p \in 1..Len(PATTERNS) |-> 0]
    /\ regexEntities = <<>>

InitRegex ==
    /\ text \in RegexTexts
    /\ pc = "regexCall"
    /\ RegexIdle
    /\ ConfigIdle
    /\ ShellIdle
    /\ NerIdle
    /\ AnonIdle

\* const entities = []; and the for loop is entered.
RegexEnter ==
    /\ pc = "regexCall"
    /\ regexEntities' = <<>>
    /\ patIdx' = 1
    /\ pc' = "regexReset"
    /\ UNCHANGED <<lastIndex, text>>
    /\ UNCHANGED <<entities, resolved, result>>
    /\ UNCHANGED nerVars
    /\ UNCHANGED config
    /\ UNCHANGED shellVars

\* pattern.regex.lastIndex = 0;
RegexResetLastIndex ==
    /\ pc = "regexReset"
    /\ lastIndex' = [lastIndex EXCEPT ![patIdx] = 0]
    /\ pc' = "regexExec"
    /\ UNCHANGED <<patIdx, regexEntities, text>>
    /\ UNCHANGED <<entities, resolved, result>>
    /\ UNCHANGED nerVars
    /\ UNCHANGED config
    /\ UNCHANGED shellVars

AtExec == pc = "regexExec"

\* An exec that starts at 0 whatever lastIndex is, as of a regex without the
\* g flag.
CurrentMatchFromZero == Exec(PATTERNS[patIdx], text, 0)

CurrentMatch == Exec(PATTERNS[patIdx], text, lastIndex[patIdx])

\* exec returns null and sets lastIndex to 0: the while loop ends, the for
\* loop goes to the next pattern or the function returns.
\* A failed exec that leaves lastIndex where it was.
LastIndexKept(li) == li

\* What a failed exec of a global regex leaves in lastIndex.
LastIndexAfterNull(li) == 0

RegexExecNoMatch ==
    /\ AtExec
    /\ CurrentMatch = <<>>
    /\ lastIndex' = [lastIndex EXCEPT ![patIdx] = LastIndexAfterNull(lastIndex[patIdx])]
    /\ IF patIdx < Len(PATTERNS)
       THEN patIdx' = patIdx + 1 /\ pc' = "regexReset"
       ELSE patIdx' = patIdx /\ pc' = "regexDone"
    /\ UNCHANGED <<regexEntities, text>>
    /\ UNCHANGED <<entities, resolved, result>>
    /\ UNCHANGED nerVars
    /\ UNCHANGED config
    /\ UNCHANGED shellVars

\* exec finds a match and leaves lastIndex at its end; the validator
\* rejects it: continue.
RegexExecRejected ==
    /\ AtExec
    /\ CurrentMatch # <<>>
    /\ LET m == CurrentMatch[1]
       IN  /\ ~Passes(PATTERNS[patIdx], substring(text, m.index, m.end))
           /\ lastIndex' = [lastIndex EXCEPT ![patIdx] = m.end]
    /\ UNCHANGED <<patIdx, regexEntities, pc, text>>
    /\ UNCHANGED <<entities, resolved, result>>
    /\ UNCHANGED nerVars
    /\ UNCHANGED config
    /\ UNCHANGED shellVars

\* exec finds a match, there is no validator or it accepts: the candidate
\* is pushed.
RegexExecAccepted ==
    /\ AtExec
    /\ CurrentMatch # <<>>
    /\ LET m == CurrentMatch[1]
       IN  /\ Passes(PATTERNS[patIdx], substring(text, m.index, m.end))
           /\ lastIndex' = [lastIndex EXCEPT ![patIdx] = m.end]
           /\ regexEntities' =
                  Append(regexEntities, RegexCandidate(PATTERNS[patIdx], text, m))
    /\ UNCHANGED <<patIdx, pc, text>>
    /\ UNCHANGED <<entities, resolved, result>>
    /\ UNCHANGED nerVars
    /\ UNCHANGED config
    /\ UNCHANGED shellVars

NextRegex ==
    \/ RegexEnter
    \/ RegexResetLastIndex
    \/ RegexExecNoMatch
    \/ RegexExecRejected
    \/ RegexExecAccepted

SpecRegex == InitRegex /\ [][NextRegex]_vars

(***************************************************************************)
(* detectWithRegex called again and again over the one shared PATTERNS     *)
(***************************************************************************)
\* The texts of the calls: nothing, or one segment.
CallTexts == {<<>>} \cup {Segments[i] : i \in 1..Len(Segments)}

InitCalls ==
    /\ text \in CallTexts
    /\ pc = "regexCall"
    /\ RegexIdle
    /\ ConfigIdle
    /\ ShellIdle
    /\ NerIdle
    /\ AnonIdle

\* return entities; and the next call, on any text.  The locals of the call
\* are gone; the regex objects of PATTERNS stay as the call left them.  The
\* caller keeps, in result, the text and the return value of its first call
\* and the number of calls made so far.
RegexReturn ==
    /\ pc = "regexDone"
    /\ result' = IF result = NoResult
                 THEN [text |-> text, entities |-> regexEntities, count |-> 1]
                 ELSE [result EXCEPT !.count = Min(MaxCalls, result.count + 1)]
    /\ \E t \in CallTexts : text' = t
    /\ pc' = "regexCall"
    /\ patIdx' = 0
    /\ regexEntities' = <<>>
    /\ UNCHANGED lastIndex
    /\ UNCHANGED <<entities, resolved>>
    /\ UNCHANGED nerVars
    /\ UNCHANGED config
    /\ UNCHANGED shellVars

NextCalls == NextRegex \/ RegexReturn

SpecCalls == InitCalls /\ [][NextCalls]_vars

(***************************************************************************)
(* The caller of the anonymizer: any list of candidates over a text        *)
(***************************************************************************)
Alphabet == <<"a", "b", "c", "d", "e", "f">>
AnonTexts == {SubSeq(Alphabet, 1, n) : n \in 0..MaxTextLen}

\* Tier-1 candidates found without context carry their rule's base score.
RuleKinds == {[entity_type |-> IN_PAN, score |-> 90],
              [entity_type |-> CREDIT_CARD, score |-> 95]}

\* Candidates of either tier: a Tier-2 score is whatever the model gave.
AnyKinds == [entity_type : {IN_PAN, PERSON}, score : {90, 95}]

\* A candidate as both detectors build it: a span inside the text with the
\* text it covers.
Candidates(t, kinds) ==
    {[entity_type |-> k.entity_type, start |-> s, end |-> e, score |-> k.score,
      original_text |-> substring(t, s, e)] :
        k \in kinds, s \in 0..(Len(t) - 1), e \in 1..Len(t)}

ValidCandidates(t, kinds) == {c \in Candidates(t, kinds) : c.start < c.end}

Init ==
    /\ text \in AnonTexts
    /\ entities = <<>>
    /\ resolved = <<>>
    /\ result = NoResult
    /\ pc = "build"
    /\ NerIdle
    /\ RegexIdle
    /\ ConfigIdle
    /\ ShellIdle

\* A detector adds one candidate to the list.
AddCandidate(kinds) ==
    /\ pc = "build"
    /\ Len(entities) < MaxEntities
    /\ \E c \in ValidCandidates(text, kinds) : entities' = Append(entities, c)
    /\ UNCHANGED <<text, resolved, result, pc>>
    /\ UNCHANGED nerVars
    /\ UNCHANGED config
    /\ UNCHANGED shellVars
    /\ UNCHANGED regexVars

\* anonymize(text, entities); resolved is its local of that name, assigned
\* only past the early return for an empty list.
CallAnonymize ==
    /\ pc = "build"
    /\ result' = anonymize(text, entities)
    /\ resolved' = IF Len(entities) = 0 THEN resolved ELSE resolveOverlaps(entities)
    /\ pc' = "done"
    /\ UNCHANGED <<text, entities>>
    /\ UNCHANGED nerVars
    /\ UNCHANGED config
    /\ UNCHANGED shellVars
    /\ UNCHANGED regexVars

AddRuleCandidate == AddCandidate(RuleKinds)
AddAnyCandidate == AddCandidate(AnyKinds)

Next == AddRuleCandidate \/ CallAnonymize

Spec == Init /\ [][Next]_vars

NextAnyOrder == AddAnyCandidate \/ CallAnonymize

SpecAnyOrder == Init /\ [][NextAnyOrder]_vars

(***************************************************************************)
(* detector.js: mapNerResults, one action per iteration of its loop        *)
(***************************************************************************)
PER == <<"P", "E", "R">>
LOC == <<"L", "O", "C">>
ORG == <<"O", "R", "G">>
MISC == <<"M", "I", "S", "C">>

\* TYPE_MAP[label]: <<>> stands for undefined.
TYPE_MAP(label) ==
    CASE label = PER -> PERSON
      [] label = LOC -> LOCATION
      [] label = ORG -> ORGANIZATION
      [] OTHER -> <<>>

\* token.entity || token.entity_group || "": an absent or empty field is <<>>.
TagOf(token) ==
    IF token.entity # <<>> THEN token.entity
    ELSE IF token.entity_group # <<>> THEN token.entity_group
    ELSE <<>>

Prefix(token) == substring(TagOf(token), 0, 2)
Label(token) == substringFrom(TagOf(token), 2)
Mapped(token) == TYPE_MAP(Label(token)) # <<>>
BPrefix == <<"B", "-">>
IPrefix == <<"I", "-">>

\* A flush that drops the open entity instead of pushing it.
FlushDropping(st) == [entities |-> st.entities, current |-> <<>>]

\* The state of the loop: [entities, current], current being <<>> or <<e>>.
\* if (currentEntity) { entities.push(currentEntity); currentEntity = null; }
Flush(st) == [entities |-> st.entities \o st.current, current |-> <<>>]

NewEntity(token, t) ==
    [entity_type |-> TYPE_MAP(Label(token)),
     start |-> token.start,
     end |-> token.end,
     score |-> token.score,
     original_text |-> substring(t, token.start, token.end)]

\* A B- token that extends an open entity of its own type instead of
\* closing it.
OnBeginMerging(st, token, t) ==
    IF st.current # <<>> /\ st.current[1].entity_type = TYPE_MAP(Label(token))
    THEN [entities |-> st.entities,
          current |-> <<[st.current[1] EXCEPT
                           !.end = token.end,
                           !.original_text = substring(t, st.current[1].start, token.end),
                           !.score = Min(st.current[1].score, token.score)]>>]
    ELSE [entities |-> st.entities \o st.current, current |-> <<NewEntity(token, t)>>]

\* prefix === "B-": push the open entity if any, open a new one.
OnBegin(st, token, t) ==
    [entities |-> st.entities \o st.current, current |-> <<NewEntity(token, t)>>]

\* An extension that takes the last token's score.
ExtendLastScore(e, token, t) ==
    [e EXCEPT !.end = token.end,
              !.original_text = substring(t, e.start, token.end),
              !.score = token.score]

\* The three assignments of the I- branch, in their order.
Extend(e, token, t) ==
    [e EXCEPT !.end = token.end,
              !.original_text = substring(t, e.start, token.end),
              !.score = Min(e.score, token.score)]

OnInside(st, token, t) ==
    [entities |-> st.entities, current |-> <<Extend(st.current[1], token, t)>>]

\* An I- token that continues whatever entity is open.
ContinuesAnyType(st, token) ==
    /\ Prefix(token) = IPrefix
    /\ st.current # <<>>

\* prefix === "I-" && currentEntity && TYPE_MAP[label] === currentEntity.entity_type
Continues(st, token) ==
    /\ Prefix(token) = IPrefix
    /\ st.current # <<>>
    /\ TYPE_MAP(Label(token)) = st.current[1].entity_type

LoopState == [entities |-> nerEntities, current |-> currentEntity]

\* The stream a NER pipeline gives for a text of two-letter words: token k
\* covers word k, with any tag and score.
NerWords == <<"a", "a", " ", "b", "b", " ", "c", "c", " ", "d", "d", " ", "e", "e">>
NerText(n) == substring(NerWords, 0, 3 * n - 1)
NerTags == {BPrefix \o PER, IPrefix \o PER, BPrefix \o LOC, IPrefix \o LOC,
            <<"O">>, BPrefix \o MISC, <<"S", "-">> \o PER}
NerScores == {80, 99}
NerToken(k, tag, sc) ==
    [entity |-> tag, entity_group |-> <<>>, start |-> 3 * (k - 1),
     end |-> 3 * (k - 1) + 2, score |-> sc]
NerStreams(n) ==
    {[k \in 1..n |-> NerToken(k, f[k][1], f[k][2])] : f \in [1..n -> NerTags \X NerScores]}

InitNer ==
    /\ \E n \in 0..MaxTokens :
          /\ nerResults \in NerStreams(n)
          /\ text = NerText(n)
    /\ tokIdx = 0
    /\ currentEntity = <<>>
    /\ nerEntities = <<>>
    /\ pc = "nerCall"
    /\ AnonIdle
    /\ RegexIdle
    /\ ConfigIdle
    /\ ShellIdle

\* if (!nerResults || nerResults.length === 0) return [];
NerReturnEmpty ==
    /\ pc = "nerCall"
    /\ Len(nerResults) = 0
    /\ nerEntities' = <<>>
    /\ pc' = "nerDone"
    /\ UNCHANGED <<nerResults, tokIdx, currentEntity>>
    /\ UNCHANGED <<text, entities, resolved, result>>
    /\ UNCHANGED regexVars
    /\ UNCHANGED config
    /\ UNCHANGED shellVars

\* const entities = []; let currentEntity = null; and the loop is entered.
NerEnterLoop ==
    /\ pc = "nerCall"
    /\ Len(nerResults) > 0
    /\ nerEntities' = <<>>
    /\ currentEntity' = <<>>
    /\ tokIdx' = 1
    /\ pc' = "nerLoop"
    /\ UNCHANGED <<nerResults>>
    /\ UNCHANGED <<text, entities, resolved, result>>
    /\ UNCHANGED regexVars
    /\ UNCHANGED config
    /\ UNCHANGED shellVars

NerStep(st) ==
    /\ nerEntities' = st.entities
    /\ currentEntity' = st.current
    /\ tokIdx' = tokIdx + 1
    /\ UNCHANGED <<nerResults, pc>>
    /\ UNCHANGED <<text, entities, resolved, result>>
    /\ UNCHANGED regexVars
    /\ UNCHANGED config
    /\ UNCHANGED shellVars

AtToken == pc = "nerLoop" /\ tokIdx <= Len(nerResults)

\* if (!TYPE_MAP[label]) { flush; continue; }
NerTokenUnmapped ==
    /\ AtToken
    /\ ~Mapped(nerResults[tokIdx])
    /\ NerStep(Flush(LoopState))

NerTokenBegin ==
    /\ AtToken
    /\ Mapped(nerResults[tokIdx])
    /\ Prefix(nerResults[tokIdx]) = BPrefix
    /\ NerStep(OnBegin(LoopState, nerResults[tokIdx], text))

NerTokenInside ==
    /\ AtToken
    /\ Mapped(nerResults[tokIdx])
    /\ Prefix(nerResults[tokIdx]) # BPrefix
    /\ Continues(LoopState, nerResults[tokIdx])
    /\ NerStep(OnInside(LoopState, nerResults[tokIdx], text))

\* else { flush }
NerTokenUnexpected ==
    /\ AtToken
    /\ Mapped(nerResults[tokIdx])
    /\ Prefix(nerResults[tokIdx]) # BPrefix
    /\ ~Continues(LoopState, nerResults[tokIdx])
    /\ NerStep(Flush(LoopState))

\* if (currentEntity) entities.push(currentEntity); return entities;
NerFinalFlush ==
    /\ pc = "nerLoop"
    /\ tokIdx > Len(nerResults)
    /\ nerEntities' = nerEntities \o currentEntity
    /\ pc' = "nerDone"
    /\ UNCHANGED <<nerResults, tokIdx, currentEntity>>
    /\ UNCHANGED <<text, entities, resolved, result>>
    /\ UNCHANGED regexVars
    /\ UNCHANGED config
    /\ UNCHANGED shellVars

NextNer ==
    \/ NerReturnEmpty
    \/ NerEnterLoop
    \/ NerTokenUnmapped
    \/ NerTokenBegin
    \/ NerTokenInside
    \/ NerTokenUnexpected
    \/ NerFinalFlush

SpecNer == InitNer /\ [][NextNer]_vars

(***************************************************************************)
(* detector.js: mapNerResults and detect as functions                      *)
(***************************************************************************)
\* The body of the for loop for one token.
TokenStep(st, token, t) ==
    IF ~Mapped(token) THEN Flush(st)
    ELSE IF Prefix(token) = BPrefix THEN OnBegin(st, token, t)
    ELSE IF Continues(st, token) THEN OnInside(st, token, t)
    ELSE Flush(st)

RECURSIVE NerLoop(_, _, _, _)
NerLoop(ner, k, st, t) ==
    IF k > Len(ner) THEN st
    ELSE NerLoop(ner, k + 1, TokenStep(st, ner[k], t), t)

mapNerResults(ner, t) ==
    IF Len(ner) = 0 THEN <<>>
    ELSE LET st == NerLoop(ner, 1, [entities |-> <<>>, current |-> <<>>], t)
         IN  st.entities \o st.current

\* The nerResults argument of detect: null, or an array (possibly empty).
Null == <<>>
Some(list) == <<list>>

\* nerResults ? mapNerResults(nerResults, text) : []  (an empty array is
\* truthy and goes through mapNerResults)
NerEntitiesOf(ner, t) == IF ner = Null THEN <<>> ELSE mapNerResults(ner[1], t)

\* detect(text, nerResults): the text and the NER results are its only
\* parameters.
detect(t, ner) == anonymize(t, detectWithRegex(t) \o NerEntitiesOf(ner, t))

(***************************************************************************)
(* The entity configuration (proxy/config.go, PUT /config) and the         *)
(* detection call                                                          *)
(***************************************************************************)
\* The types a PUT /config body of the model names.
ToggleTypes == {US_SSN, PERSON}
ConfigUpdates == UNION {[S -> BOOLEAN] : S \in SUBSET ToggleTypes}

\* The token lists a NER pipeline gives for a text: the empty list, or one
\* B-PER token over the first word of the text.
NerLists(t) ==
    {<<>>} \cup
    {<<[entity |-> BPrefix \o PER, entity_group |-> <<>>, start |-> 0, end |-> 4,
        score |-> 99]>> : x \in {y \in {t} : Len(y) >= 4 /\ y[1] \in Upper}}

\* The NER results handed to detect: null or one of these lists.
NerChoices(t) == {Null} \cup {Some(list) : list \in NerLists(t)}

InitConfig ==
    /\ text \in RegexTexts
    /\ pc = "config"
    /\ RegexIdle
    /\ ConfigIdle
    /\ ShellIdle
    /\ NerIdle
    /\ AnonIdle

\* for entity, enabled := range updates { h.config.SetEntity(entity, enabled) }
SetEntities(cfg, updates) ==
    [e \in DOMAIN cfg \cup DOMAIN updates |->
        IF e \in DOMAIN updates THEN updates[e] ELSE cfg[e]]

HandleSetConfig ==
    /\ pc \in {"config", "detected"}
    /\ \E updates \in ConfigUpdates : config' = SetEntities(config, updates)
    /\ pc' = "config"
    /\ UNCHANGED <<text, entities, resolved, result>>
    /\ UNCHANGED nerVars
    /\ UNCHANGED regexVars
    /\ UNCHANGED shellVars

\* detect(text, nerResults), whole: both tiers, the merge and anonymize.
\* Every scan of detectWithRegex ends with lastIndex back at 0.
CallDetect ==
    /\ pc = "config"
    /\ \E regexEnts \in {detectWithRegex(text)}, ner \in NerChoices(text) :
          \E nerEnts \in {NerEntitiesOf(ner, text)} :
             \E all \in {regexEnts \o nerEnts} :
                /\ nerResults' = (IF ner = Null THEN <<>> ELSE ner[1])
                /\ regexEntities' = regexEnts
                /\ nerEntities' = nerEnts
                /\ entities' = all
                /\ result' = anonymize(text, all)
                /\ resolved' = (IF Len(all) = 0 THEN resolved
                                ELSE resolveOverlaps(all))
    /\ pc' = "detected"
    /\ UNCHANGED <<text, config, tokIdx, currentEntity, patIdx, lastIndex>>
    /\ UNCHANGED shellVars

NextConfig == HandleSetConfig \/ CallDetect

SpecConfig == InitConfig /\ [][NextConfig]_vars

(***************************************************************************)
(* The two detection backends: the offscreen worker of the Lite extension  *)
(* (detect messages) and the proxy's POST /anonymize                       *)
(***************************************************************************)
\* sendResponse(r): the worker has answered the message once more.
Respond(w, r, outcome) ==
    [w EXCEPT !.responses = @ + 1, !.response = r, !.pc = "responded",
              !.nerOutcome = outcome]

\* The catch branch that rethrows instead of answering with Tier 1.
FallbackFails(t) == NoResult

\* catch (err) { const result = detect(text, null); ... }
FallbackResult(t) == detect(t, Null)

\* The texts of detect messages: one segment less than RegexTexts.
BackendTexts ==
    UNION {{Join([i \in 1..n |-> Segments[f[i]]]) : f \in [1..n -> 1..Len(Segments)]} :
              n \in 0..(MaxSegments - 1)}

InitBackends ==
    /\ text \in BackendTexts
    /\ pc = "backends"
    /\ RegexIdle
    /\ ConfigIdle
    /\ ShellIdle
    /\ NerIdle
    /\ AnonIdle

EngineUnchanged ==
    /\ UNCHANGED <<text, entities, resolved, result, pc, config>>
    /\ UNCHANGED nerVars
    /\ UNCHANGED regexVars

\* loadNerModel: the import and pipeline(...) succeed.
LoadNerModelSucceeds ==
    /\ worker.nerLoading
    /\ worker' = [worker EXCEPT !.nerReady = TRUE, !.nerLoading = FALSE]
    /\ EngineUnchanged
    /\ UNCHANGED <<proxy, page, bg>>

\* loadNerModel: the import or pipeline(...) throws.
LoadNerModelFails ==
    /\ worker.nerLoading
    /\ worker' = [worker EXCEPT !.nerError = TRUE, !.nerLoading = FALSE]
    /\ EngineUnchanged
    /\ UNCHANGED <<proxy, page, bg>>

\* The onMessage listener for action "detect", up to its return.
OnDetectMessage ==
    /\ worker.pc = "idle"
    /\ worker' =
          IF Len(text) < 3
          THEN Respond(worker, [text |-> text, entities |-> <<>>, count |-> 0], "short")
          ELSE IF worker.nerReady
          THEN [worker EXCEPT !.pc = "inference"]
          ELSE Respond(worker, detect(text, Null), "notReady")
    /\ EngineUnchanged
    /\ UNCHANGED <<proxy, page, bg>>

\* await nerPipeline(text) gives a token list.
NerInferenceReturns ==
    /\ worker.pc = "inference"
    /\ EngineUnchanged
    /\ UNCHANGED <<proxy, page, bg>>
    /\ \E list \in NerLists(text) :
          worker' = Respond(worker, detect(text, Some(list)),
                            IF list = <<>> THEN "empty" ELSE "tokens")

\* await nerPipeline(text) throws.
NerInferenceThrows ==
    /\ worker.pc = "inference"
    /\ EngineUnchanged
    /\ UNCHANGED <<proxy, page, bg>>
    /\ worker' = Respond(worker, FallbackResult(text), "threw")

\* POST /anonymize bodies: one that does not decode, and texts.
ProxyTexts == {<<>>, <<"1", "2", "3", "-", "4", "5", "-", "6", "7", "8", "9">>}
ProxyRequests ==
    {[valid |-> FALSE, text |-> <<>>]} \cup {[valid |-> TRUE, text |-> t] : t \in ProxyTexts}

\* What h.presidio.Anonymize(text) returns: an error, or the result Presidio
\* sent.
PresidioAnswers(t) ==
    {[err |-> TRUE, result |-> NoResult],
     [err |-> FALSE, result |-> [text |-> t, entities |-> <<>>, count |-> 0]],
     [err |-> FALSE,
      result |-> [text |-> Token(US_SSN),
                  entities |-> <<[entity_type |-> US_SSN, start |-> 0,
                                  end |-> Len(Token(US_SSN)), score |-> 85]>>,
                  count |-> 1]]}

ErrorBody(msg) == [error |-> msg]

\* A handler that sends every text to Presidio, the empty one too.
HandleAnonymizeNoShortcut(req, answer) ==
    IF ~req.valid
    THEN [reqText |-> req.text, status |-> 400,
          body |-> ErrorBody("invalid request body"), presidioCalls |-> 0]
    ELSE IF answer.err
    THEN [reqText |-> req.text, status |-> 502,
          body |-> ErrorBody("presidio unavailable"), presidioCalls |-> 1]
    ELSE [reqText |-> req.text, status |-> 200, body |-> answer.result,
          presidioCalls |-> 1]

\* HandleAnonymize: the state of the exchange when the handler returns.
HandleAnonymizeReply(req, answer) ==
    IF ~req.valid
    THEN [reqText |-> req.text, status |-> 400,
          body |-> ErrorBody("invalid request body"), presidioCalls |-> 0]
    ELSE IF req.text = <<>>
    THEN [reqText |-> req.text, status |-> 200,
          body |-> [text |-> <<>>, entities |-> <<>>, count |-> 0],
          presidioCalls |-> 0]
    ELSE IF answer.err
    THEN [reqText |-> req.text, status |-> 502,
          body |-> ErrorBody("presidio unavailable"), presidioCalls |-> 1]
    ELSE [reqText |-> req.text, status |-> 200, body |-> answer.result,
          presidioCalls |-> 1]

HandleAnonymize ==
    /\ \E req \in ProxyRequests :
          \E answer \in PresidioAnswers(req.text) :
             proxy' = HandleAnonymizeReply(req, answer)
    /\ EngineUnchanged
    /\ UNCHANGED <<worker, page, bg>>

NextBackends ==
    \/ LoadNerModelSucceeds
    \/ LoadNerModelFails
    \/ OnDetectMessage
    \/ NerInferenceReturns
    \/ NerInferenceThrows
    \/ HandleAnonymize

SpecBackends == InitBackends /\ [][NextBackends]_vars

(***************************************************************************)
(* detect applied to the output of an earlier detect                       *)
(***************************************************************************)
\* The entity types of the rules of PATTERNS.
RegistryTypes == {PATTERNS[p].entity : p \in 1..Len(PATTERNS)}

\* One text per rule that the rule accepts.
Samples ==
    {<<"a", "@", "b", ".", "c", "o">>,
     <<"9", "8", "7", "6", "5", "4", "3", "2", "1", "0">>,
     <<"2", "1", "2", "-", "5", "5", "5", "-", "1", "2", "3", "4">>,
     <<"4", "1", "1", "1", "1", "1", "1", "1", "1", "1", "1", "1", "1", "1", "1", "1">>,
     <<"2", "3", "4", "5", "6", "7", "8", "9", "0", "1", "2", "4">>,
     <<"A", "B", "C", "D", "E", "1", "2", "3", "4", "F">>,
     <<"1", "2", "3", "-", "4", "5", "-", "6", "7", "8", "9">>,
     <<"1", ".", "2", ".", "3", ".", "4">>,
     <<"a", "@", "y", "b", "l">>,
     <<"A", "1", "2", "3", "4", "5", "6", "7">>}

\* What stands directly before and after the sample or the placeholder.
Befores == {<<>>, <<"t", "o", " ">>, <<"x">>}
Afters == {<<>>, <<"@", "y", "b", "l">>, <<" ", "o", "k">>, <<"1", "2", "3", "4", "F">>}

\* Texts to detect in: a sample, or a placeholder that an earlier call left.
RedetectTexts ==
    {b \o m \o a : b \in Befores,
                   m \in Samples \cup {Token(T) : T \in RegistryTypes},
                   a \in Afters}

\* The spans [start, end) of t that hold the placeholder of a registry type.
TokenSpans(t) ==
    {sp \in {[start |-> s, end |-> s + Len(Token(T))] :
                s \in 0..Len(t), T \in RegistryTypes} :
        /\ sp.end <= Len(t)
        /\ \E T \in RegistryTypes : substring(t, sp.start, sp.end) = Token(T)}

InitRedetect ==
    /\ text \in RedetectTexts
    /\ pc = "firstCall"
    /\ RegexIdle
    /\ ConfigIdle
    /\ ShellIdle
    /\ NerIdle
    /\ AnonIdle

\* detect(text, null): the candidates of the rules, resolved and replaced.
FirstDetect ==
    /\ pc = "firstCall"
    /\ \E regexEnts \in {detectWithRegex(text)} :
          /\ entities' = regexEnts
          /\ result' = anonymize(text, regexEnts)
          /\ resolved' = (IF Len(regexEnts) = 0 THEN resolved
                          ELSE resolveOverlaps(regexEnts))
    /\ pc' = "secondCall"
    /\ UNCHANGED <<text, config>>
    /\ UNCHANGED nerVars
    /\ UNCHANGED regexVars
    /\ UNCHANGED shellVars

\* The rules run over the text the first call returned.
SecondDetect ==
    /\ pc = "secondCall"
    /\ regexEntities' = detectWithRegex(result.text)
    /\ pc' = "redetected"
    /\ UNCHANGED <<text, config, entities, resolved, result, patIdx, lastIndex>>
    /\ UNCHANGED nerVars
    /\ UNCHANGED shellVars

NextRedetect == FirstDetect \/ SecondDetect

SpecRedetect == InitRedetect /\ [][NextRedetect]_vars

(***************************************************************************)
(* The page script: the patched fetch, XMLHttpRequest.send and             *)
(* WebSocket.send, sendToProxy and the listener for the answers            *)
(***************************************************************************)
\* The user text of an intercepted body, and what the anonymizer makes of it.
UserText == Segments[1]
RedactedText == Token(US_SSN)

\* A body handed to a send function: the body the page gave, or
\* extracted.replaceWith(t).
OriginalBody(b) == [kind |-> "original", text |-> b.text]
ReplacedBody(t) == [kind |-> "replaced", text |-> t]

\* The bodies the page sends: their length and what extractUserText finds.
PageBodies ==
    {[length |-> 0, text |-> <<>>],
     [length |-> 9, text |-> <<>>],
     [length |-> 40, text |-> <<"h", "i">>],
     [length |-> 40, text |-> UserText]}

Methods == {"GET", "POST", "PUT"}

\* The answers the content script posts for a text: a failure answer (the
\* same shape for disabled, no response, a proxy error or a thrown error, the
\* error field apart), or a result with modified true.
NoAnswer == [text |-> <<>>, modified |-> FALSE, error |-> "pending"]
TimeoutAnswer(t) == [text |-> t, modified |-> FALSE, error |-> "timeout"]
Answers(t) ==
    {[text |-> t, modified |-> FALSE, error |-> "no_response"],
     [text |-> RedactedText, modified |-> TRUE, error |-> "none"],
     [text |-> t, modified |-> TRUE, error |-> "none"]}

\* What the patched fetch does with a call before any await on the proxy.
FetchPath(method, endpoint, relative, body) ==
    IF method \notin {"POST", "PUT"} THEN "original"
    ELSE IF ~endpoint THEN "original"
    ELSE IF body.length < 10 THEN "original"
    ELSE IF relative THEN "catch"
    ELSE IF Len(body.text) < 3 THEN "original"
    ELSE "proxy"

XhrPath(method, hasUrl, endpoint, body) ==
    IF method \notin {"POST", "PUT"} \/ body.length = 0 \/ ~hasUrl THEN "original"
    ELSE IF ~endpoint THEN "original"
    ELSE IF body.length < 10 THEN "original"
    ELSE IF Len(body.text) < 3 THEN "original"
    ELSE "proxy"

WsPath(isString, endpoint, body) ==
    IF ~isString \/ body.length < 10 \/ ~endpoint THEN "original"
    ELSE IF Len(body.text) < 3 THEN "original"
    ELSE "proxy"

\* The body the continuation hands to the original send function.
BodyToSend(channel, body, res) ==
    IF channel = "fetch"
    THEN IF res.modified /\ res.text # body.text
         THEN ReplacedBody(res.text) ELSE OriginalBody(body)
    ELSE IF res.modified THEN ReplacedBody(res.text) ELSE OriginalBody(body)

\* A call that goes straight to the original send function.
SentAtOnce(channel, body) ==
    [channel |-> channel, body |-> body, stage |-> "done", messageId |-> 0,
     result |-> NoAnswer, sent |-> <<OriginalBody(body)>>]

\* A call that waits for sendToProxy(extracted.text).
Waiting(channel, body, id) ==
    [channel |-> channel, body |-> body, stage |-> "waiting", messageId |-> id,
     result |-> NoAnswer, sent |-> <<>>]

\* sendToProxy: the next messageId, the resolver stored, the message posted
\* and the 8000 ms timer armed.
SendToProxy(p, channel, body) ==
    LET id == p.messageIdCounter + 1
    IN  [p EXCEPT !.messageIdCounter = id,
                  !.pendingRequests = @ \cup {id},
                  !.posted = @ \cup {id},
                  !.timers = @ \cup {id},
                  !.requests = Append(@, Waiting(channel, body, id))]

Intercept(p, channel, path, body) ==
    IF path = "proxy" THEN SendToProxy(p, channel, body)
    ELSE [p EXCEPT !.requests = Append(@, SentAtOnce(channel, body))]

\* resolve(res) of the promise of message id.
Resolve(p, id, res) ==
    [p EXCEPT !.pendingRequests = @ \ {id},
              !.requests = [r \in DOMAIN @ |->
                               IF @[r].messageId = id
                               THEN [@[r] EXCEPT !.stage = "settled", !.result = res]
                               ELSE @[r]]]

TextOf(p, id) ==
    LET r == CHOOSE r \in DOMAIN p.requests : p.requests[r].messageId = id
    IN  p.requests[r].body.text

\* A timer that fires without resolving anything.
OnTimeoutDropped(p, id) == [p EXCEPT !.timers = @ \ {id}]

\* The setTimeout callback of message id.
OnTimeout(p, id) ==
    IF id \in p.pendingRequests
    THEN Resolve([p EXCEPT !.timers = @ \ {id}], id, TimeoutAnswer(TextOf(p, id)))
    ELSE [p EXCEPT !.timers = @ \ {id}]

\* A listener that resolves without looking the id up.
OnAnswerNoLookup(p, msg) ==
    Resolve([p EXCEPT !.inbox = @ \ {msg}], msg.messageId, msg.response)

\* The message listener for an answer to message id.
OnAnswer(p, msg) ==
    IF msg.messageId \in p.pendingRequests
    THEN Resolve([p EXCEPT !.inbox = @ \ {msg}], msg.messageId, msg.response)
    ELSE [p EXCEPT !.inbox = @ \ {msg}]

InitPage ==
    /\ text = UserText
    /\ pc = "page"
    /\ RegexIdle
    /\ ConfigIdle
    /\ ShellIdle
    /\ NerIdle
    /\ AnonIdle

PageFrame ==
    /\ UNCHANGED <<worker, proxy, bg>>
    /\ EngineUnchanged

\* window.fetch(input, init)
FetchCall ==
    /\ pc = "page"
    /\ Len(page.requests) < MaxRequests
    /\ \E method \in Methods, endpoint \in BOOLEAN, relative \in BOOLEAN,
          body \in PageBodies :
          page' = Intercept(page, "fetch",
                            FetchPath(method, endpoint, relative, body), body)
    /\ PageFrame

\* xhr.send(body)
XhrSend ==
    /\ pc = "page"
    /\ Len(page.requests) < MaxRequests
    /\ \E method \in Methods, hasUrl \in BOOLEAN, endpoint \in BOOLEAN,
          body \in PageBodies :
          page' = Intercept(page, "xhr", XhrPath(method, hasUrl, endpoint, body), body)
    /\ PageFrame

\* ws.send(data)
WsSend ==
    /\ pc = "page"
    /\ Len(page.requests) < MaxRequests
    /\ \E isString \in BOOLEAN, endpoint \in BOOLEAN, body \in PageBodies :
          page' = Intercept(page, "ws", WsPath(isString, endpoint, body), body)
    /\ PageFrame

\* The content script posts its one answer to a message of the page.
RelayAnswer ==
    /\ pc = "page"
    /\ \E id \in page.posted : \E res \in Answers(TextOf(page, id)) :
          page' = [page EXCEPT !.posted = @ \ {id},
                               !.inbox = @ \cup {[messageId |-> id, response |-> res]}]
    /\ PageFrame

AnswerArrives ==
    /\ pc = "page"
    /\ \E msg \in page.inbox : page' = OnAnswer(page, msg)
    /\ PageFrame

TimerFires ==
    /\ pc = "page"
    /\ \E id \in page.timers : page' = OnTimeout(page, id)
    /\ PageFrame

\* The code after the await, or the then callback.
Continuation ==
    /\ pc = "page"
    /\ \E r \in DOMAIN page.requests :
          /\ page.requests[r].stage = "settled"
          /\ page' = [page EXCEPT !.requests[r] =
                        [@ EXCEPT !.stage = "done",
                                  !.sent = Append(@, BodyToSend(page.requests[r].channel,
                                                                page.requests[r].body,
                                                                page.requests[r].result))]]
    /\ PageFrame

\* Another FROM_BACKGROUND message with the id of a message that has been
\* answered before: window.postMessage is open to every script of the page.
RepeatAnswer ==
    /\ pc = "page"
    /\ \E id \in (1..page.messageIdCounter) \ page.posted :
          \E res \in Answers(TextOf(page, id)) :
             page' = [page EXCEPT !.inbox = @ \cup {[messageId |-> id, response |-> res]}]
    /\ PageFrame

NextPage ==
    \/ FetchCall
    \/ XhrSend
    \/ WsSend
    \/ RelayAnswer
    \/ AnswerArrives
    \/ TimerFires
    \/ Continuation

\* Timers fire, posted messages are delivered and continuations run; the
\* content script may never answer.
SpecPage ==
    /\ InitPage
    /\ [][NextPage]_vars
    /\ WF_vars(TimerFires)
    /\ WF_vars(AnswerArrives)
    /\ WF_vars(Continuation)

(***************************************************************************)
(* The background service worker: handleAnonymize of the Lite extension    *)
(* (offscreen detector) and of the Full extension (proxy)                  *)
(***************************************************************************)
\* A settled promise.
Resolved(v) == [state |-> "resolved", value |-> v]
Rejected(message) == [state |-> "rejected", value |-> [error |-> message]]

\* { text, modified: false, error }
FailOpen(t, error) == [text |-> t, modified |-> FALSE, error |-> error]

\* An error thrown inside the try block that nothing catches.
Uncaught(t, message) == Rejected(message)

\* catch (e) { return { text, modified: false, error: e.message }; }
Caught(t, message) == Resolved(FailOpen(t, message))

\* redactionLog.push(entry); if (redactionLog.length > 200) slice(-100)
PushLog(log, entry) ==
    LET pushed == Append(log, entry)
    IN  IF Len(pushed) > 200
        THEN SubSeq(pushed, Len(pushed) - 99, Len(pushed))
        ELSE pushed

\* String(n) of a number that is not negative.
RECURSIVE String(_)
String(n) ==
    IF n < 10 THEN <<DigitSeq[n + 1]>>
    ELSE String(n \div 10) \o <<DigitSeq[(n % 10) + 1]>>

\* updateBadge(): the colour and the text of the badge; the last branch sets
\* the text alone.
updateBadge(b) ==
    IF ~b.enabled
    THEN [b EXCEPT !.badge = [color |-> "#6b7280", text |-> <<"O", "F", "F">>]]
    ELSE IF ~b.detectorReady
    THEN [b EXCEPT !.badge = [color |-> "#f59e0b", text |-> <<".", ".", ".">>]]
    ELSE IF b.totalRedactions > 0
    THEN [b EXCEPT !.badge = [color |-> "#22c55e",
                              text |-> IF b.totalRedactions > 99
                                       THEN <<"9", "9", "+">>
                                       ELSE String(b.totalRedactions)]]
    ELSE [b EXCEPT !.badge.text = <<>>]

\* The counters after a result of the detector or the proxy.
Counted(b, res) ==
    IF res.count > 0
    THEN updateBadge([b EXCEPT !.totalRedactions = @ + res.count,
                               !.redactionLog = PushLog(@, [entities |-> res.entities,
                                                            count |-> res.count])])
    ELSE b

\* { text: result.text, modified: result.count > 0, count, entities }
Success(res) ==
    [text |-> res.text, modified |-> res.count > 0, count |-> res.count,
     entities |-> res.entities]

\* What awaiting the detector or the proxy can end in.
LiteOutcomes(t) ==
    {[kind |-> "throws", result |-> NoResult],
     [kind |-> "no_response", result |-> NoResult],
     [kind |-> "result", result |-> FallbackResult(t)]}

FullOutcomes(t) ==
    {[kind |-> "throws", result |-> NoResult]} \cup
    {LET r == HandleAnonymizeReply([valid |-> TRUE, text |-> t], a)
     IN  IF r.status = 200 THEN [kind |-> "result", result |-> r.body]
         ELSE [kind |-> "proxy_502", result |-> NoResult] :
        a \in PresidioAnswers(t)}

\* A handleAnonymize without the test of enabled.
HandledWhileDisabled(b, t, o) ==
    IF o.kind = "throws"
    THEN [b EXCEPT !.reqText = t, !.outcome = o.kind,
                   !.reply = Caught(t, "error")]
    ELSE IF o.kind # "result"
    THEN [b EXCEPT !.reqText = t, !.outcome = o.kind,
                   !.reply = Resolved(FailOpen(t, o.kind))]
    ELSE [Counted(b, o.result) EXCEPT !.reqText = t, !.outcome = "result",
                                      !.detected = o.result,
                                      !.reply = Resolved(Success(o.result))]

\* handleAnonymize(text), whole, for an outcome of its await.
Handled(b, t, o) ==
    IF ~b.enabled
    THEN [b EXCEPT !.reqText = t, !.outcome = "disabled",
                   !.reply = Resolved(FailOpen(t, "disabled"))]
    ELSE IF o.kind = "throws"
    THEN [b EXCEPT !.reqText = t, !.outcome = o.kind,
                   !.reply = Caught(t, "error")]
    ELSE IF o.kind # "result"
    THEN [b EXCEPT !.reqText = t, !.outcome = o.kind,
                   !.reply = Resolved(FailOpen(t, o.kind))]
    ELSE [Counted(b, o.result) EXCEPT !.reqText = t, !.outcome = "result",
                                      !.detected = o.result,
                                      !.reply = Resolved(Success(o.result))]

BgTexts == {<<>>, Segments[1], Segments[5]}

InitBg ==
    /\ text \in BgTexts
    /\ pc = "bg"
    /\ RegexIdle
    /\ ConfigIdle
    /\ ShellIdle
    /\ NerIdle
    /\ AnonIdle

BgFrame ==
    /\ UNCHANGED <<worker, proxy, page>>
    /\ EngineUnchanged

\* message.action === "setEnabled"
SetEnabled ==
    /\ pc = "bg"
    /\ \E b \in BOOLEAN : bg' = updateBadge([bg EXCEPT !.enabled = b])
    /\ BgFrame

\* The timer set at startup: getDetectorStatus answers or throws, then
\* updateBadge().
DetectorStatus ==
    /\ pc = "bg"
    /\ \E answered \in BOOLEAN :
          bg' = updateBadge([bg EXCEPT !.detectorReady = @ \/ answered])
    /\ BgFrame

\* background.js (Lite): handleAnonymize
LiteHandleAnonymize ==
    /\ pc = "bg"
    /\ Len(bg.redactionLog) < MaxLog
    /\ \E o \in LiteOutcomes(text) : bg' = Handled(bg, text, o)
    /\ BgFrame

\* background (Full): handleAnonymize
FullHandleAnonymize ==
    /\ pc = "bg"
    /\ Len(bg.redactionLog) < MaxLog
    /\ \E o \in FullOutcomes(text) : bg' = Handled(bg, text, o)
    /\ BgFrame

NextBg == SetEnabled \/ DetectorStatus \/ LiteHandleAnonymize \/ FullHandleAnonymize

SpecBg == InitBg /\ [][NextBg]_vars

(***************************************************************************)
(* validators.js: luhn called on card numbers and on their neighbours      *)
(***************************************************************************)
Visa16 == <<"4", "1", "1", "1", "1", "1", "1", "1", "1", "1", "1", "1", "1", "1", "1", "1">>
Visa16Off == <<"4", "1", "1", "1", "1", "1", "1", "1", "1", "1", "1", "1", "1", "1", "1", "2">>
Visa16Dashed == <<"4", "1", "1", "1", "-", "1", "1", "1", "1", "-", "1", "1", "1", "1", "-", "1", "1", "1", "1">>
Card13 == <<"4", "2", "2", "2", "2", "2", "2", "2", "2", "2", "2", "2", "2">>
Digits12 == <<"4", "1", "1", "1", "1", "1", "1", "1", "1", "1", "1", "7">>
Card19 == <<"4", "1", "1", "1", "1", "1", "1", "1", "1", "1", "1", "1", "1", "1", "1", "1", "1", "1", "0">>
Digits20 == <<"4", "1", "1", "1", "1", "1", "1", "1", "1", "1", "1", "1", "1", "1", "1", "1", "1", "1", "1", "5">>

LuhnTexts == {<<>>, Visa16, Visa16Off, Visa16Dashed, Card13, Digits12, Card19, Digits20}

InitLuhn ==
    /\ text \in LuhnTexts
    /\ pc = "luhnCall0"
    /\ RegexIdle
    /\ ConfigIdle
    /\ ShellIdle
    /\ NerIdle
    /\ AnonIdle

LuhnFrame ==
    /\ UNCHANGED <<entities, resolved, result, config>>
    /\ UNCHANGED nerVars
    /\ UNCHANGED regexVars
    /\ UNCHANGED shellVars

\* luhn(text): pc keeps what it returned.
CallLuhn ==
    /\ pc \in {"luhnCall0", "luhnCall1"}
    /\ pc' = (IF luhn(text) THEN "luhnTrue" ELSE "luhnFalse") \o
                 (IF pc = "luhnCall0" THEN "0" ELSE "1")
    /\ UNCHANGED text
    /\ LuhnFrame

\* One digit of the number is replaced by a different digit, and luhn is
\* called on the new number.
ChangeOneDigit ==
    /\ pc \in {"luhnTrue0", "luhnFalse0"}
    /\ \E i \in 1..Len(text) : \E d \in Digit :
          /\ text[i] \in Digit
          /\ d # text[i]
          /\ text' = [text EXCEPT ![i] = d]
    /\ pc' = "luhnCall1"
    /\ LuhnFrame

NextLuhn == CallLuhn \/ ChangeOneDigit

SpecLuhn == InitLuhn /\ [][NextLuhn]_vars

(***************************************************************************)
(* validators.js: verhoeff called on Aadhaar numbers and their neighbours  *)
(***************************************************************************)
Aadhaar12 == <<"2", "3", "4", "5", "6", "7", "8", "9", "0", "1", "2", "4">>
Aadhaar12Spaced == <<"2", "3", "4", "5", " ", "6", "7", "8", "9", " ", "0", "1", "2", "4">>
Palindrome12 == <<"2", "0", "0", "0", "0", "9", "9", "0", "0", "0", "0", "2">>
StartsWithOne == <<"1", "3", "4", "5", "6", "7", "8", "9", "0", "1", "2", "9">>
StartsWithZero == <<"0", "3", "4", "5", "6", "7", "8", "9", "0", "1", "2", "8">>
Digits11 == <<"2", "3", "4", "5", "6", "7", "8", "9", "0", "1", "9">>
Digits13 == <<"2", "3", "4", "5", "6", "7", "8", "9", "0", "1", "2", "3", "2">>

VerhoeffTexts ==
    {<<>>, Aadhaar12, Aadhaar12Spaced, Palindrome12, StartsWithOne, StartsWithZero,
     Digits11, Digits13}

InitVerhoeff ==
    /\ text \in VerhoeffTexts
    /\ pc = "verhoeffCall0"
    /\ RegexIdle
    /\ ConfigIdle
    /\ ShellIdle
    /\ NerIdle
    /\ AnonIdle

\* verhoeff(text): pc keeps what it returned.
CallVerhoeff ==
    /\ pc \in {"verhoeffCall0", "verhoeffCall1"}
    /\ pc' = (IF verhoeff(text) THEN "verhoeffTrue" ELSE "verhoeffFalse") \o
                 (IF pc = "verhoeffCall0" THEN "0" ELSE "1")
    /\ UNCHANGED text
    /\ LuhnFrame

\* One digit of the number is replaced by a different digit, and verhoeff is
\* called on the new number.
ChangeOneAadhaarDigit ==
    /\ pc \in {"verhoeffTrue0", "verhoeffFalse0"}
    /\ \E i \in 1..Len(text) : \E d \in Digit :
          /\ text[i] \in Digit
          /\ d # text[i]
          /\ text' = [text EXCEPT ![i] = d]
    /\ pc' = "verhoeffCall1"
    /\ LuhnFrame

NextVerhoeff == CallVerhoeff \/ ChangeOneAadhaarDigit

SpecVerhoeff == InitVerhoeff /\ [][NextVerhoeff]_vars

(***************************************************************************)
(* validators.js: validateSSN called on numbers around its limits          *)
(***************************************************************************)
SsnAreas ==
    {<<"0", "0", "0">>, <<"0", "0", "1">>, <<"1", "2", "3">>, <<"6", "6", "5">>,
     <<"6", "6", "6">>, <<"6", "6", "7">>, <<"8", "9", "9">>, <<"9", "0", "0">>,
     <<"9", "9", "9">>}
SsnGroups == {<<"0", "0">>, <<"0", "1">>, <<"4", "5">>}
SsnSerials == {<<"0", "0", "0", "0">>, <<"0", "0", "0", "1">>, <<"6", "7", "8", "9">>}
SsnSeparators == {<<>>, <<"-">>}

SsnTexts ==
    {a \o sep \o g \o sep \o s :
        a \in SsnAreas, g \in SsnGroups, s \in SsnSerials, sep \in SsnSeparators}
    \cup {<<>>, <<"1", "2", "3", "4", "5", "6", "7", "8">>,
          <<"1", "2", "3", "4", "5", "6", "7", "8", "9", "0">>}

InitSsn ==
    /\ text \in SsnTexts
    /\ pc = "ssnCall"
    /\ RegexIdle
    /\ ConfigIdle
    /\ ShellIdle
    /\ NerIdle
    /\ AnonIdle

\* validateSSN(text): pc keeps what it returned.
CallValidateSSN ==
    /\ pc = "ssnCall"
    /\ pc' = (IF validateSSN(text) THEN "ssnTrue" ELSE "ssnFalse")
    /\ UNCHANGED text
    /\ LuhnFrame

NextSsn == CallValidateSSN

SpecSsn == InitSsn /\ [][NextSsn]_vars

(***************************************************************************)
(* detectWithRegex over texts with keywords at the edges of the window     *)
(***************************************************************************)
Pad(k) == [i \in 1..k |-> " "]

\* What stands before the number, and how far before.
BoostBefores ==
    {<<>>, <<"s", "s", "n">>, <<"S", "S", "N">>,
     <<"s", "s", "n", " ", "s", "o", "c", "i", "a", "l">>}
BoostGaps == {1, 47, 48, 50}

\* What stands after the number, and how far after.
BoostAfters == {<<>>, <<"S", "o", "c", "i", "a", "l">>}
BoostGapsAfter == {1, 44, 45}

BoostTexts ==
    {b \o Pad(g) \o Segments[1] \o Pad(h) \o a :
        b \in BoostBefores, g \in BoostGaps, a \in BoostAfters, h \in BoostGapsAfter}
    \cup {<<"s", "s", "n", " ">> \o Segments[2]}

InitBoost ==
    /\ text \in BoostTexts
    /\ pc = "regexCall"
    /\ RegexIdle
    /\ ConfigIdle
    /\ ShellIdle
    /\ NerIdle
    /\ AnonIdle

SpecBoost == InitBoost /\ [][NextRegex]_vars

(***************************************************************************)
(* The caller of the anonymizer with candidates of three scores            *)
(***************************************************************************)
SweepKinds == [entity_type : {PERSON}, score : {90, 95, 99}]

AddSweepCandidate == AddCandidate(SweepKinds)

NextSweep == AddSweepCandidate \/ CallAnonymize

SpecSweep == Init /\ [][NextSweep]_vars

\* The WebSocket calls of a page, with answers that come late or twice.
NextRepeat ==
    \/ WsSend
    \/ RelayAnswer
    \/ RepeatAnswer
    \/ AnswerArrives
    \/ TimerFires
    \/ Continuation

SpecRepeat == InitPage /\ [][NextRepeat]_vars

(***************************************************************************)
(* The page script: extractUserText and replaceWith                        *)
(***************************************************************************)
MaxParts == 2

NL == "\n"

\* newText.split("\n")
RECURSIVE split(_)
split(s) ==
    IF \A i \in 1..Len(s) : s[i] # NL THEN <<s>>
    ELSE LET i == CHOOSE k \in 1..Len(s) : s[k] = NL /\ \A h \in 1..(k - 1) : s[h] # NL
         IN  <<SubSeq(s, 1, i - 1)>> \o split(SubSeq(s, i + 1, Len(s)))

\* textParts.map((p) => p.val).join("\n")
RECURSIVE join(_)
join(vals) ==
    IF vals = <<>> THEN <<>>
    ELSE IF Len(vals) = 1 THEN vals[1]
    ELSE vals[1] \o <<NL>> \o join(Tail(vals))

\* A text part is a string element of parts; any other element is an object.
StringPart(val) == [str |-> TRUE, val |-> val]
ObjectPart == [str |-> FALSE, val |-> <<"i", "m", "g">>]

IsString(p) == p.str

\* parts.map((p, idx) => ({ idx, val: p })).filter((p) => typeof p.val === "string")
textParts(parts) == SelectSeq([i \in 1..Len(parts) |-> [idx |-> i, val |-> parts[i]]],
                              LAMBDA p : IsString(p.val))

combinedText(parts) == join([j \in 1..Len(textParts(parts)) |-> textParts(parts)[j].val.val])

\* for (j < textParts.length) parts[textParts[j].idx] =
\*     j < newParts.length ? newParts[j] : ""
replaceWith(parts, newText) ==
    LET tp == textParts(parts)
        newParts == split(newText)
    IN  [i \in 1..Len(parts) |->
            IF \E j \in 1..Len(tp) : tp[j].idx = i
            THEN LET j == CHOOSE k \in 1..Len(tp) : tp[k].idx = i
                 IN  StringPart(IF j <= Len(newParts) THEN newParts[j] ELSE <<>>)
            ELSE parts[i]]

PartStrings == {<<"a">>, <<"a", "b">>, <<"a", "b", "c">>, <<"a", NL, "b">>, <<"a", "b", NL>>}

PartLists == UNION {[1..n -> {StringPart(s) : s \in PartStrings} \cup {ObjectPart}] :
                       n \in 1..MaxParts}

\* The body of a conversation request: the last user message's parts and
\* the fields beside them.
SpliceBodies == [parts : PartLists, model : {<<"g", "p", "t">>}]

\* The anonymized forms of a text: one run of characters without a newline
\* replaced by a token.
AnonymizedForms(t) ==
    {substring(t, 0, i) \o Token(PERSON) \o substringFrom(t, j) :
        <<i, j>> \in {s \in (0..Len(t)) \X (0..Len(t)) :
                         /\ s[1] < s[2]
                         /\ \A k \in (s[1] + 1)..s[2] : t[k] # NL}}

InitSplice ==
    /\ page \in [body : SpliceBodies, original : SpliceBodies]
    /\ page.body = page.original
    /\ text = <<>>
    /\ result = [text |-> <<>>, modified |-> FALSE]
    /\ pc = "idle"
    /\ entities = <<>> /\ resolved = <<>>
    /\ NerIdle
    /\ RegexIdle
    /\ ConfigIdle
    /\ worker = WorkerStart /\ proxy = ProxyStart /\ bg = BgStart

SpliceFrame ==
    /\ UNCHANGED <<entities, resolved, config, worker, proxy, bg>>
    /\ UNCHANGED nerVars
    /\ UNCHANGED regexVars

\* extractUserText(bodyText) of a body whose last user message has parts;
\* the caller gives up on a text shorter than three characters.
ExtractUserText ==
    /\ pc = "idle"
    /\ text' = combinedText(page.body.parts)
    /\ pc' = IF textParts(page.body.parts) = <<>> \/ Len(text') < 3
             THEN "passedThrough" ELSE "extracted"
    /\ UNCHANGED <<page, result>>
    /\ SpliceFrame

\* const result = await sendToProxy(extracted.text), an answer with PII found
ProxyAnswers ==
    /\ pc = "extracted"
    /\ \E t \in AnonymizedForms(text) :
          result' = [text |-> t, modified |-> TRUE]
    /\ pc' = "answered"
    /\ UNCHANGED <<page, text>>
    /\ SpliceFrame

\* if (result.modified && result.text !== extracted.text)
\*     finalBody = extracted.replaceWith(result.text)
ReplaceBody ==
    /\ pc = "answered"
    /\ result.modified /\ result.text # text
    /\ page' = [page EXCEPT !.body.parts = replaceWith(page.body.parts, result.text)]
    /\ pc' = "replaced"
    /\ UNCHANGED <<text, result>>
    /\ SpliceFrame

NextSplice == ExtractUserText \/ ProxyAnswers \/ ReplaceBody

SpecSplice == InitSplice /\ [][NextSplice]_vars

(***************************************************************************)
(* content.js: the bridge between the page script and the background       *)
(***************************************************************************)
\* The value of an await that gave nothing.
Undefined == [undefined |-> TRUE]

\* payload of a FROM_PAGE message of sendToProxy
BridgePayloads == [action : {"anonymize"}, text : {Segments[1], Segments[5]}]

\* What chrome.runtime.sendMessage(payload) ends in: it throws, the
\* background answers nothing, or the background answers.
RelayOutcomes(payload) ==
    {[kind |-> "throws", value |-> Undefined],
     [kind |-> "answer", value |-> Undefined],
     [kind |-> "answer", value |-> FailOpen(payload.text, "disabled")]} \cup
    {[kind |-> "answer", value |-> Success(a.result)] :
        a \in {b \in PresidioAnswers(payload.text) : ~b.err}}

\* What the fetch of directProxyCall ends in: it rejects (no proxy, or the
\* abort after 5000 ms), or the proxy replies.
NoOutcome == [kind |-> "none"]
DirectOutcomes(payload) ==
    {[kind |-> "throws", status |-> 0, body |-> NoResult]} \cup
    {[kind |-> "reply", status |-> r.status, body |-> r.body] :
        r \in {HandleAnonymizeReply([valid |-> TRUE, text |-> payload.text], a) :
                  a \in PresidioAnswers(payload.text)}}

\* `proxy_${resp.status}` for the statuses of the proxy that are not OK
ProxyError(status) ==
    IF status = 400 THEN "proxy_400" ELSE IF status = 502 THEN "proxy_502" ELSE "proxy_500"

\* directProxyCall(payload)
directProxyCall(payload, o) ==
    IF payload.action # "anonymize"
    THEN Resolved([text |-> payload.text, modified |-> FALSE])
    ELSE IF o.kind = "throws" THEN Rejected("fetch failed")
    ELSE IF o.status \notin 200..299
    THEN Resolved(FailOpen(payload.text, ProxyError(o.status)))
    ELSE Resolved(Success(o.body))

\* The inner try and catch around directProxyCall.
DirectResponse(payload, o) ==
    LET r == directProxyCall(payload, o)
    IN  IF r.state = "rejected" THEN FailOpen(payload.text, r.value.error)
        ELSE r.value

\* A bridge that posts the response as it is.
ResponseOrNothing(response, payload) == response

\* response || { text: payload.text, modified: false, error: "no_response" }
ResponseOrDefault(response, payload) ==
    IF response = Undefined THEN FailOpen(payload.text, "no_response") ELSE response

\* window.postMessage({ type: FROM_BACKGROUND, messageId, response })
PostFromBackground(p, i, response) ==
    [p EXCEPT !.calls[i].stage = "done",
              !.posted = Append(@, [messageId |-> p.calls[i].messageId,
                                    response |-> ResponseOrDefault(response,
                                                                   p.calls[i].payload)])]

BridgeStart == [messageIdCounter |-> 0, calls |-> <<>>, posted |-> <<>>]

InitBridge ==
    /\ page = BridgeStart
    /\ text = <<>>
    /\ pc = "bridge"
    /\ AnonIdle
    /\ NerIdle
    /\ RegexIdle
    /\ ConfigIdle
    /\ worker = WorkerStart /\ proxy = ProxyStart /\ bg = BgStart

\* A FROM_PAGE message arrives: the listener calls
\* chrome.runtime.sendMessage(payload) and waits.
FromPage ==
    /\ pc = "bridge"
    /\ Len(page.calls) < MaxRequests
    /\ \E payload \in BridgePayloads :
          page' = [page EXCEPT !.messageIdCounter = @ + 1,
                               !.calls = Append(@, [messageId |-> page.messageIdCounter + 1,
                                                    payload |-> payload,
                                                    stage |-> "relaying",
                                                    relay |-> NoOutcome,
                                                    direct |-> NoOutcome])]
    /\ PageFrame

\* The await of the relay ends: with an answer the listener posts it, with
\* an error it calls directProxyCall.
RelaySettles ==
    /\ pc = "bridge"
    /\ \E i \in DOMAIN page.calls :
          /\ page.calls[i].stage = "relaying"
          /\ \E o \in RelayOutcomes(page.calls[i].payload) :
                page' = IF o.kind = "answer"
                        THEN PostFromBackground([page EXCEPT !.calls[i].relay = o], i, o.value)
                        ELSE [page EXCEPT !.calls[i].relay = o, !.calls[i].stage = "direct"]
    /\ PageFrame

\* The await of directProxyCall ends.
DirectSettles ==
    /\ pc = "bridge"
    /\ \E i \in DOMAIN page.calls :
          /\ page.calls[i].stage = "direct"
          /\ \E o \in DirectOutcomes(page.calls[i].payload) :
                page' = PostFromBackground([page EXCEPT !.calls[i].direct = o], i,
                                           DirectResponse(page.calls[i].payload, o))
    /\ PageFrame

NextBridge == FromPage \/ RelaySettles \/ DirectSettles

\* The promise of chrome.runtime.sendMessage settles, and the fetch settles
\* or is aborted after 5000 ms.
SpecBridge ==
    /\ InitBridge
    /\ [][NextBridge]_vars
    /\ WF_vars(RelaySettles)
    /\ WF_vars(DirectSettles)

(***************************************************************************)
(* background.js (Lite): the message listener with requests in flight      *)
(***************************************************************************)
\* A redactionLog of n earlier results with one entity each, oldest first.
LogOf(n) == [k \in 1..n |-> [timestamp |-> k, entities |-> <<US_SSN>>, count |-> 1]]

\* The lengths of the log the background starts from: empty, and at the
\* limit of 200 entries.
LogLengths == {0, 199, 200}

\* redactionLog.slice(-k)
SliceLast(log, k) ==
    IF Len(log) <= k THEN log ELSE SubSeq(log, Len(log) - k + 1, Len(log))

\* The background after n results of count 1: the counters, the log, the
\* badge of the last updateBadge(), no request in flight.  sinceClear and
\* completed are the bookkeeping of the results completed since the last
\* clearLog and of the responses sent.
FlightStart(n) ==
    [inflight |-> {}, started |-> 0, clock |-> n, sinceClear |-> n,
     completed |-> <<>>, state |-> NoReply] @@
    updateBadge([BgStart EXCEPT !.detectorReady = TRUE,
                                !.totalRedactions = n,
                                !.redactionLog = LogOf(n)])

\* What the awaits of handleAnonymize end in for a request in flight.
FlightOutcomes(t) ==
    {[kind |-> "throws", result |-> NoResult],
     [kind |-> "no_response", result |-> NoResult]} \cup
    {[kind |-> "result", result |-> a.result] :
        a \in {b \in PresidioAnswers(t) : ~b.err}}

\* totalRedactions += result.count; redactionLog.push({ timestamp, entities,
\* count }); the cut to the last 100 above 200; updateBadge()
CountResult(b, res) ==
    IF res.count > 0
    THEN updateBadge([b EXCEPT !.totalRedactions = @ + res.count,
                               !.clock = @ + 1,
                               !.redactionLog =
                                   LET pushed == Append(@, [timestamp |-> b.clock + 1,
                                                            entities |-> res.entities,
                                                            count |-> res.count])
                                   IN  IF Len(pushed) > 200 THEN SliceLast(pushed, 100)
                                       ELSE pushed])
    ELSE b

\* A clearLog that leaves the counter as it is.
ClearedLogOnly(b) == updateBadge([b EXCEPT !.redactionLog = <<>>, !.sinceClear = 0])

\* redactionLog = []; totalRedactions = 0; updateBadge()
Cleared(b) ==
    updateBadge([b EXCEPT !.redactionLog = <<>>, !.totalRedactions = 0, !.sinceClear = 0])

\* A getState that returns the whole log.
StateOfWholeLog(b) ==
    [enabled |-> b.enabled, proxyHealthy |-> b.detectorReady,
     totalRedactions |-> b.totalRedactions, redactionLog |-> b.redactionLog]

\* { enabled, proxyHealthy: detectorReady, totalRedactions,
\*   redactionLog: redactionLog.slice(-50) }
StateOf(b) ==
    [enabled |-> b.enabled, proxyHealthy |-> b.detectorReady,
     totalRedactions |-> b.totalRedactions, redactionLog |-> SliceLast(b.redactionLog, 50)]

\* The response of request id, with what the background was when it was sent.
Completion(b, id, value, res) ==
    [id |-> id, value |-> value, count |-> IF res.count > 0 THEN res.count ELSE 0,
     enabled |-> b.enabled]

InitFlight ==
    /\ text = Segments[1]
    /\ pc = "flight"
    /\ \E n \in LogLengths : bg = FlightStart(n)
    /\ worker = WorkerStart /\ proxy = ProxyStart /\ page = PageStart
    /\ RegexIdle
    /\ ConfigIdle
    /\ NerIdle
    /\ AnonIdle

\* message.action === "anonymize": handleAnonymize(text) runs to its first
\* await, or returns the disabled answer.
AnonymizeArrives ==
    /\ pc = "flight"
    /\ bg.started < MaxCalls
    /\ bg' = IF ~bg.enabled
             THEN [bg EXCEPT !.started = @ + 1,
                             !.completed = Append(@, Completion(bg, bg.started + 1,
                                                                FailOpen(text, "disabled"),
                                                                NoResult))]
             ELSE [bg EXCEPT !.started = @ + 1, !.inflight = @ \cup {bg.started + 1}]
    /\ BgFrame

\* The awaits of a request in flight end and handleAnonymize runs to its
\* return.
DetectorSettles ==
    /\ pc = "flight"
    /\ \E id \in bg.inflight : \E o \in FlightOutcomes(text) :
          bg' = IF o.kind = "throws"
                THEN [bg EXCEPT !.inflight = @ \ {id},
                                !.completed = Append(@, Completion(bg, id,
                                                        FailOpen(text, "error"), NoResult))]
                ELSE IF o.kind = "no_response"
                THEN [bg EXCEPT !.inflight = @ \ {id},
                                !.completed = Append(@, Completion(bg, id,
                                                        FailOpen(text, "no_response"),
                                                        NoResult))]
                ELSE [CountResult(bg, o.result) EXCEPT
                         !.inflight = @ \ {id},
                         !.sinceClear = @ + (IF o.result.count > 0 THEN o.result.count ELSE 0),
                         !.completed = Append(@, Completion(bg, id, Success(o.result),
                                                            o.result))]
    /\ BgFrame

\* message.action === "setEnabled"
SetEnabledMessage ==
    /\ pc = "flight"
    /\ \E b \in BOOLEAN : bg' = updateBadge([bg EXCEPT !.enabled = b])
    /\ BgFrame

\* message.action === "clearLog"
ClearLogMessage ==
    /\ pc = "flight"
    /\ bg' = Cleared(bg)
    /\ BgFrame

\* message.action === "getState"
GetStateMessage ==
    /\ pc = "flight"
    /\ bg' = [bg EXCEPT !.state = Resolved(StateOf(bg))]
    /\ BgFrame

NextFlight ==
    \/ AnonymizeArrives
    \/ DetectorSettles
    \/ SetEnabledMessage
    \/ ClearLogMessage
    \/ GetStateMessage

SpecFlight == InitFlight /\ [][NextFlight]_vars

(***************************************************************************)
(* proxy: PUT /config and GET /config handled by concurrent goroutines     *)
(***************************************************************************)
\* c.Entities[entity] = enabled, under c.mu.Lock()
SetEntity(cfg, entity, enabled) ==
    [e \in DOMAIN cfg \cup {entity} |-> IF e = entity THEN enabled ELSE cfg[e]]

\* GetEntities(): a copy of the map, made under c.mu.RLock()
GetEntities(cfg) == [e \in DOMAIN cfg |-> cfg[e]]

\* EnabledEntities(): the keys whose value is true, in no fixed order
EnabledEntities(cfg) == {e \in DOMAIN cfg : cfg[e]}

\* Nothing read yet.
NoSeen == [kind |-> "none", map |-> <<>>, list |-> {}, puts |-> <<>>]

\* The requests of the proxy: the PUTs that have decoded their body, with
\* the keys their loop has not reached yet, and the last map or list a
\* reader was given, with the PUTs as they stood at that moment.
PutStart == [puts |-> <<>>, seen |-> NoSeen]

InitPut ==
    /\ text = <<>>
    /\ pc = "put"
    /\ proxy = PutStart
    /\ worker = WorkerStart /\ page = PageStart /\ bg = BgStart
    /\ RegexIdle
    /\ ConfigIdle
    /\ NerIdle
    /\ AnonIdle

PutFrame ==
    /\ UNCHANGED <<text, entities, resolved, result, pc, worker, page, bg>>
    /\ UNCHANGED nerVars
    /\ UNCHANGED regexVars

\* HandleSetConfig: the body is decoded, the loop is about to start.
PutDecoded ==
    /\ pc = "put"
    /\ Len(proxy.puts) < MaxRequests
    /\ \E updates \in ConfigUpdates :
          proxy' = [proxy EXCEPT !.puts = Append(@, [updates |-> updates,
                                                     remaining |-> DOMAIN updates,
                                                     before |-> config,
                                                     response |-> <<>>,
                                                     done |-> FALSE])]
    /\ UNCHANGED config
    /\ PutFrame

\* One round of the loop of a PUT: h.config.SetEntity(entity, enabled) for a
\* key the range has not given yet.
PutSetsEntity ==
    /\ pc = "put"
    /\ \E i \in DOMAIN proxy.puts : \E entity \in proxy.puts[i].remaining :
          /\ config' = SetEntity(config, entity, proxy.puts[i].updates[entity])
          /\ proxy' = [proxy EXCEPT !.puts[i].remaining = @ \ {entity}]
    /\ PutFrame

\* writeJSON(w, h.config.GetEntities()) at the end of a PUT
PutResponds ==
    /\ pc = "put"
    /\ \E i \in DOMAIN proxy.puts :
          /\ proxy.puts[i].remaining = {}
          /\ ~proxy.puts[i].done
          /\ proxy' = [proxy EXCEPT !.puts[i].done = TRUE,
                                    !.puts[i].response = GetEntities(config)]
    /\ UNCHANGED config
    /\ PutFrame

\* HandleGetConfig: writeJSON(w, h.config.GetEntities())
GetConfig ==
    /\ pc = "put"
    /\ proxy' = [proxy EXCEPT !.seen = [kind |-> "map", map |-> GetEntities(config),
                                        list |-> {}, puts |-> proxy.puts]]
    /\ UNCHANGED config
    /\ PutFrame

\* h.config.EnabledEntities() of an anonymize request
ReadEnabledEntities ==
    /\ pc = "put"
    /\ proxy' = [proxy EXCEPT !.seen = [kind |-> "list", map |-> <<>>,
                                        list |-> EnabledEntities(config),
                                        puts |-> proxy.puts]]
    /\ UNCHANGED config
    /\ PutFrame

\* The caller of GetEntities writes into the map it was given.
CallerWritesMap ==
    /\ pc = "put"
    /\ proxy.seen.kind = "map"
    /\ \E entity \in ToggleTypes :
          proxy' = [proxy EXCEPT !.seen.map[entity] = ~@]
    /\ UNCHANGED config
    /\ PutFrame

NextPut ==
    \/ PutDecoded
    \/ PutSetsEntity
    \/ PutResponds
    \/ GetConfig
    \/ ReadEnabledEntities
    \/ CallerWritesMap

SpecPut == InitPut /\ [][NextPut]_vars

(***************************************************************************)
(* Properties of resolveOverlaps and anonymize                             *)
(***************************************************************************)
Overlap(a, b) == a.start < b.end /\ b.start < a.end
SpanLen(e) == e.end - e.start
Permuted(es, p) == [i \in 1..Len(es) |-> es[p[i]]]

\* C1: every manifest entry's start/end are the offsets of its placeholder
\* token in the OUTPUT text: result.text.substring(m.start, m.end) is
\* m.new_value, and m.end does not exceed the length of the output.
C1_ManifestPointsIntoOutput ==
    pc = "done" =>
        \A i \in 1..Len(result.entities) :
            LET m == result.entities[i]
            IN  /\ m.end <= Len(result.text)
                /\ substring(result.text, m.start, m.end) = m.new_value

\* C2: for candidates with start < end, in any order and with any overlaps,
\* the output of resolveOverlaps has strictly increasing starts and is
\* pairwise disjoint (a.end <= b.start for a before b).
C2_ResolvedDisjointSorted ==
    pc = "done" =>
        \A i, j \in 1..Len(resolved) :
            i < j => /\ resolved[i].start < resolved[j].start
                     /\ resolved[i].end <= resolved[j].start

\* C2's case: three candidates out of start order, two of them overlapping,
\* resolved to two entities.
C2_Witness ==
    /\ pc = "done"
    /\ Len(entities) = 3
    /\ entities[1].start > entities[2].start
    /\ Overlap(entities[2], entities[3])
    /\ Len(resolved) = 2

\* One left-to-right reconstruction from the original offsets: the text
\* between the spans is copied, each span becomes its token.
RECURSIVE LeftToRight(_, _, _, _)
LeftToRight(t, res, i, pos) ==
    IF i > Len(res) THEN substringFrom(t, pos)
    ELSE substring(t, pos, res[i].start) \o <<"<">> \o res[i].entity_type \o <<">">>
         \o LeftToRight(t, res, i + 1, res[i].end)

\* C3: the output text of anonymize is the input text with each resolved
\* span replaced by '<' + entity_type + '>' and every character outside
\* the spans kept in place; the right-to-left splicing gives the text of a
\* single left-to-right reconstruction.
C3_OutputTextIsReconstruction ==
    pc = "done" => result.text = LeftToRight(text, resolved, 1, 0)

\* C3's case: three candidates resolved to two spans of different types,
\* with kept text before and between them.
C3_Witness ==
    /\ pc = "done"
    /\ Len(entities) = 3
    /\ result.count = 2
    /\ result.entities[1].entity_type # result.entities[2].entity_type
    /\ result.text = <<"a">> \o Token(IN_PAN) \o <<"c">> \o Token(CREDIT_CARD)

\* C4: two overlapping candidates resolve to exactly one entity: the one
\* with the strictly higher score, or with equal scores the strictly longer
\* one, in both input orders and with or without a common start.
C4_TwoOverlappingKeepBest ==
    (pc = "done" /\ Len(entities) = 2 /\ Overlap(entities[1], entities[2])) =>
        /\ Len(resolved) = 1
        /\ \A i, j \in 1..2 :
              /\ entities[i].score > entities[j].score => resolved[1] = entities[i]
              /\ (entities[i].score = entities[j].score
                    /\ SpanLen(entities[i]) > SpanLen(entities[j]))
                 => resolved[1] = entities[i]

\* C4's case: equal scores, the longer candidate listed second and starting
\* later than the shorter one.
C4_Witness ==
    /\ pc = "done"
    /\ Len(entities) = 2
    /\ Overlap(entities[1], entities[2])
    /\ entities[1].score = entities[2].score
    /\ entities[1].start < entities[2].start
    /\ SpanLen(entities[2]) > SpanLen(entities[1])
    /\ resolved = <<entities[2]>>

\* C6: the result does not depend on the order of the candidate list: every
\* permutation of the list gives the same resolved entities and the same
\* anonymize result, also for candidates that tie on start, score and
\* length and differ in entity type.
C6_OrderIndependent ==
    pc = "done" =>
        \A p \in Permutations(1..Len(entities)) :
            /\ resolveOverlaps(Permuted(entities, p)) = resolveOverlaps(entities)
            /\ anonymize(text, Permuted(entities, p)) = result

(***************************************************************************)
(* Properties of detectWithRegex and of the entity configuration           *)
(***************************************************************************)
SsnInvalid == <<"0", "0", "0", "-", "1", "2", "-", "3", "4", "5", "6">>
SsnValid == <<"1", "2", "3", "-", "4", "5", "-", "6", "7", "8", "9">>

\* C5: once an entity type is disabled in the configuration, a detection
\* call reports no candidate and no manifest entry of that type: every
\* candidate and every manifest entry a call produces has a type that the
\* configuration held at the call enables.
C5_DisabledTypeNeverReported ==
    [][(pc = "config" /\ pc' = "detected") =>
          /\ \A k \in 1..Len(entities') : config[entities'[k].entity_type]
          /\ \A k \in 1..Len(result'.entities) :
                config[result'.entities[k].entity_type]]_vars

\* The offsets at which the US_SSN matcher matches in t (its matches have
\* one length and cannot overlap).
SsnMatches(t) ==
    {i \in 0..Len(t) : LET e == ExecFrom(SsnRegex, t, i)
                       IN  e # <<>> /\ e[1].index = i}

\* C7: the validator is a hard gate. At every match of a rule that has a
\* validator, the candidate list grows by exactly the candidate of that
\* match when the validator accepts the matched substring and stays as it
\* is when the validator rejects it; either way the same rule goes on
\* scanning from the end of the match. When the function has returned, the
\* US_SSN candidates are exactly the matches of the US_SSN matcher that
\* validateSSN accepts.
C7_ValidatorIsHardGate ==
    /\ [][(AtExec /\ CurrentMatch # <<>> /\ PATTERNS[patIdx].validate # "null") =>
            LET rule == PATTERNS[patIdx]
                m == CurrentMatch[1]
                matchedText == substring(text, m.index, m.end)
            IN  /\ pc' = "regexExec"
                /\ patIdx' = patIdx
                /\ lastIndex'[patIdx] = m.end
                /\ IF Validate(rule.validate, matchedText)
                   THEN /\ Len(regexEntities') = Len(regexEntities) + 1
                        /\ SubSeq(regexEntities', 1, Len(regexEntities)) = regexEntities
                        /\ LET c == regexEntities'[Len(regexEntities')]
                           IN  /\ c.entity_type = rule.entity
                               /\ c.start = m.index
                               /\ c.end = m.end
                               /\ c.original_text = matchedText
                               /\ c.score >= rule.score
                   ELSE regexEntities' = regexEntities]_vars
    /\ [](pc = "regexDone" =>
            {<<regexEntities[k].start, regexEntities[k].end>> :
                k \in {j \in 1..Len(regexEntities) :
                          regexEntities[j].entity_type = US_SSN}}
            = {<<i, i + Len(SsnValid)>> :
                  i \in {j \in SsnMatches(text) :
                            validateSSN(substring(text, j, j + Len(SsnValid)))}})

\* A rejected US_SSN match followed by an accepted one: only the second is
\* a candidate.
C7_Witness ==
    /\ pc = "regexDone"
    /\ text = SsnInvalid \o <<" ">> \o SsnValid
    /\ \E k \in 1..Len(regexEntities) :
          /\ regexEntities[k].entity_type = US_SSN
          /\ regexEntities[k].start = Len(SsnInvalid) + 1
          /\ regexEntities[k].original_text = SsnValid
    /\ \A k \in 1..Len(regexEntities) :
          regexEntities[k].entity_type = US_SSN => regexEntities[k].start # 0

\* The rules that can have produced candidate c: same type, and the rule's
\* matcher matches exactly the candidate's span.
RulesOf(c, t) ==
    {p \in 1..Len(PATTERNS) :
        /\ PATTERNS[p].entity = c.entity_type
        /\ LET e == ExecFrom(PATTERNS[p].regex, t, c.start)
           IN  e # <<>> /\ e[1].index = c.start /\ e[1].end = c.end}

\* C8: every Tier-1 candidate's score is min(100, base + boost) for the
\* base score of a rule that matches its span and the boost, 0 or 10, that
\* contextBoost gives for that span; it is at least the base score, at most
\* 100, and exactly 100 when the base score is 100.
C8_ScoreIsCappedSum ==
    \A k \in 1..Len(regexEntities) :
        LET c == regexEntities[k]
        IN  /\ c.score <= 100
            /\ \E p \in RulesOf(c, text) :
                  LET base == PATTERNS[p].score
                      boost == contextBoost(text, c.start, c.end, PATTERNS[p].context)
                  IN  /\ boost \in {0, ContextBoostValue}
                      /\ c.score = Min(100, base + boost)
                      /\ c.score >= base
                      /\ (base = 100 => c.score = 100)

\* An e-mail address (base score 100) with a context word next to it, and
\* so a boost that the cap absorbs.
C8_Witness ==
    /\ pc = "regexDone"
    /\ \E k \in 1..Len(regexEntities) :
          LET c == regexEntities[k]
          IN  /\ c.entity_type = EMAIL_ADDRESS
              /\ contextBoost(text, c.start, c.end, EmailContext) = ContextBoostValue
              /\ c.score = 100

(***************************************************************************)
(* Properties of mapNerResults                                             *)
(***************************************************************************)
Tok(k) == nerResults[k]
IsBegin(k) == Mapped(Tok(k)) /\ Prefix(Tok(k)) = BPrefix
IsInsideOf(k, ty) == Prefix(Tok(k)) = IPrefix /\ TYPE_MAP(Label(Tok(k))) = ty

\* The last token of the run that starts at the B- token b: b and the I-
\* tokens of b's mapped type that follow it without a gap.
RunEnd(b) ==
    LET ty == TYPE_MAP(Label(Tok(b)))
        ends == {j \in b..Len(nerResults) : \A k \in (b + 1)..j : IsInsideOf(k, ty)}
    IN  CHOOSE j \in ends : \A k \in ends : k <= j

MinScore(b, j) ==
    LET scores == {Tok(k).score : k \in b..j}
    IN  CHOOSE m \in scores : \A x \in scores : m <= x

\* C9: a B- token with a mapped label followed by any number of I- tokens
\* of the same mapped type yields exactly one candidate: it starts at the
\* B- token's start, ends at the last I- token's end, carries
\* text[start, end) and the minimum of the scores of its tokens.
C9_RunIsOneCandidate ==
    pc = "nerDone" =>
        \A b \in 1..Len(nerResults) :
            IsBegin(b) =>
                LET j == RunEnd(b)
                    found == {i \in 1..Len(nerEntities) :
                                 nerEntities[i].start = Tok(b).start}
                IN  /\ Cardinality(found) = 1
                    /\ \A i \in found :
                          nerEntities[i] =
                              [entity_type |-> TYPE_MAP(Label(Tok(b))),
                               start |-> Tok(b).start,
                               end |-> Tok(j).end,
                               score |-> MinScore(b, j),
                               original_text |->
                                   substring(text, Tok(b).start, Tok(j).end)]

\* C9's case: B-PER, I-PER, I-PER with the lowest score in the middle.
C9_Witness ==
    /\ pc = "nerDone"
    /\ Len(nerResults) = 3
    /\ IsBegin(1) /\ IsInsideOf(2, PERSON) /\ IsInsideOf(3, PERSON)
    /\ Tok(1).score = 99 /\ Tok(2).score = 80 /\ Tok(3).score = 99
    /\ Len(nerEntities) = 1
    /\ nerEntities[1].end = Tok(3).end
    /\ nerEntities[1].score = 80

\* C10: on a B- token with a mapped label, whatever the accumulator holds,
\* the open entity (if any) is emitted unchanged and a new entity is opened
\* with the token's start, end, score and mapped type: consecutive B-
\* tokens are never merged.
C10_BeginFlushesAndOpens ==
    [][(AtToken /\ IsBegin(tokIdx)) =>
          /\ nerEntities' = nerEntities \o currentEntity
          /\ currentEntity' =
                <<[entity_type |-> TYPE_MAP(Label(Tok(tokIdx))),
                   start |-> Tok(tokIdx).start,
                   end |-> Tok(tokIdx).end,
                   score |-> Tok(tokIdx).score,
                   original_text |->
                       substring(text, Tok(tokIdx).start, Tok(tokIdx).end)]>>]_vars

\* C10's case: two consecutive B-PER tokens have been processed; the first
\* is emitted with its own end, the second is the open entity.
C10_Witness ==
    /\ pc = "nerLoop"
    /\ tokIdx = 3
    /\ IsBegin(1) /\ IsBegin(2)
    /\ Tok(1).entity = Tok(2).entity
    /\ Len(nerEntities) = 1
    /\ nerEntities[1].start = Tok(1).start
    /\ nerEntities[1].end = Tok(1).end
    /\ currentEntity # <<>>
    /\ currentEntity[1].start = Tok(2).start

\* C11: a token that is neither a B- token with a mapped label nor an I-
\* token whose mapped type is the open entity's type (an unmapped label, an
\* I- of another type, an I- with nothing open, an unknown prefix) emits the
\* open entity, if any, and leaves nothing open: it opens no entity and adds
\* no candidate of its own.
C11_OtherTokenFlushes ==
    [][(AtToken
         /\ ~IsBegin(tokIdx)
         /\ ~(currentEntity # <<>>
               /\ IsInsideOf(tokIdx, currentEntity[1].entity_type))) =>
          /\ nerEntities' = nerEntities \o currentEntity
          /\ currentEntity' = <<>>
          /\ tokIdx' = tokIdx + 1]_vars

\* C11's case: B-PER then I-LOC have been processed; the person is emitted
\* with the first token's span and nothing is open.
C11_Witness ==
    /\ pc = "nerLoop"
    /\ tokIdx = 3
    /\ IsBegin(1)
    /\ Tok(1).entity = BPrefix \o PER
    /\ Tok(2).entity = IPrefix \o LOC
    /\ currentEntity = <<>>
    /\ Len(nerEntities) = 1
    /\ nerEntities[1].end = Tok(1).end

\* The B- tokens with a mapped label, and the rank of one among them.
BeginTokens == {k \in 1..Len(nerResults) : IsBegin(k)}
BeginRank(k) == Cardinality({j \in BeginTokens : j <= k})

\* C12: no opened entity is lost or duplicated. When the function has
\* returned there is one candidate per B- token with a mapped label, the
\* i-th candidate starting at the i-th such token's start; and at every
\* step the candidates emitted so far stay as they are, new ones being
\* appended after them.
C12_NoEntityLostOrDuplicated ==
    /\ [](pc = "nerDone" =>
            /\ Len(nerEntities) = Cardinality(BeginTokens)
            /\ \A k \in BeginTokens :
                  nerEntities[BeginRank(k)].start = Tok(k).start)
    /\ [][/\ Len(nerEntities') >= Len(nerEntities)
          /\ SubSeq(nerEntities', 1, Len(nerEntities)) = nerEntities]_vars

\* C12's case: B-PER, an O token, B-LOC: the person is emitted by the O
\* token, the location is still open at the end of the stream and emitted
\* by the final flush.
C12_Witness ==
    /\ pc = "nerDone"
    /\ Len(nerResults) = 3
    /\ Tok(1).entity = BPrefix \o PER
    /\ Tok(2).entity = <<"O">>
    /\ Tok(3).entity = BPrefix \o LOC
    /\ Len(nerEntities) = 2
    /\ nerEntities[1].entity_type = PERSON
    /\ nerEntities[2].entity_type = LOCATION
    /\ nerEntities[2].start = Tok(3).start

(***************************************************************************)
(* Properties of the detection backends                                    *)
(***************************************************************************)
\* The answer Tier 1 alone gives for the text.
TierOneOnly(t) == anonymize(t, detectWithRegex(t))

\* The outcomes in which NER contributed nothing: text too short to be
\* examined, model not loaded (or failed to load), empty token list,
\* inference error.
NoNerOutcomes == {"short", "notReady", "empty", "threw"}

\* C13: without NER results detection still answers and the answer is the
\* Tier-1-only result: detect(text, null) = detect(text, []) =
\* anonymize(text, detectWithRegex(text)); the worker answers a detect
\* message once when the model is absent, not yet loaded, gives an empty
\* list or fails, with that result: a message is unanswered only while the
\* handler has not run or the inference is pending, and is never answered
\* twice.
C13_DegradesToTierOne ==
    /\ worker = WorkerStart =>
          /\ detect(text, Null) = TierOneOnly(text)
          /\ detect(text, Some(<<>>)) = TierOneOnly(text)
    /\ worker.responses = (IF worker.pc \in {"idle", "inference"} THEN 0 ELSE 1)
    /\ worker.pc \in {"idle", "inference", "responded"}
    /\ (worker.pc = "responded" /\ worker.nerOutcome \in NoNerOutcomes) =>
          worker.response = TierOneOnly(text)

\* C13's case: the model was loaded, inference threw, and the worker
\* answered with the redacted SSN that Tier 1 finds.
C13_Witness ==
    /\ worker.pc = "responded"
    /\ worker.nerReady
    /\ worker.nerOutcome = "threw"
    /\ worker.responses = 1
    /\ worker.response.count = 1
    /\ worker.response.entities[1].entity_type = US_SSN

\* C14: a text with no candidates (no pattern match, no NER tokens), the
\* empty text included, is answered with the text unchanged, an empty
\* manifest and count 0; POST /anonymize answers an empty text with 200 and
\* that same result, without a call to Presidio.
C14_NoCandidatesUnchanged ==
    /\ (worker.pc = "responded"
         /\ worker.nerOutcome \in NoNerOutcomes
         /\ detectWithRegex(text) = <<>>) =>
          worker.response = [text |-> text, entities |-> <<>>, count |-> 0]
    /\ worker = WorkerStart =>
          anonymize(text, <<>>) = [text |-> text, entities |-> <<>>, count |-> 0]
    /\ (proxy.status # 0 /\ proxy.status # 400 /\ proxy.reqText = <<>>) =>
          /\ proxy.status = 200
          /\ proxy.body = [text |-> <<>>, entities |-> <<>>, count |-> 0]
          /\ proxy.presidioCalls = 0

\* C14's case: the worker has answered a text without PII through
\* anonymize, and the proxy has answered an empty text.
C14_Witness ==
    /\ worker.pc = "responded"
    /\ worker.nerOutcome = "notReady"
    /\ text = <<"M", "a", "i", "l">>
    /\ worker.response.text = text
    /\ worker.response.count = 0
    /\ proxy.status = 200
    /\ proxy.reqText = <<>>
    /\ proxy.presidioCalls = 0

\* C15: the manifest anonymize returns has one entry per resolved entity, in
\* the resolved (left to right, ascending original start) order although the
\* loop runs right to left; entry i carries the entity_type, score and
\* original_text of resolved entity i, its new_value is "<" + entity_type +
\* ">", and count is the manifest length.
C15_ManifestMirrorsResolved ==
    pc = "done" =>
        /\ Len(result.entities) = Len(resolved)
        /\ result.count = Len(result.entities)
        /\ \A i \in 1..Len(resolved) :
              /\ result.entities[i].entity_type = resolved[i].entity_type
              /\ result.entities[i].score = resolved[i].score
              /\ result.entities[i].original_text = resolved[i].original_text
              /\ result.entities[i].original_text =
                     substring(text, resolved[i].start, resolved[i].end)
              /\ result.entities[i].new_value =
                     <<"<">> \o resolved[i].entity_type \o <<">">>
        /\ \A i, j \in 1..Len(resolved) :
              i < j => /\ resolved[i].start < resolved[j].start
                       /\ result.entities[i].start < result.entities[j].start

\* Two entities survive, handed over right one first, of different types.
C15_Witness ==
    /\ pc = "done"
    /\ Len(entities) = 2
    /\ entities[1].start > entities[2].start
    /\ result.count = 2
    /\ result.entities[1].entity_type # result.entities[2].entity_type

(***************************************************************************)
(* Properties of repeated calls                                            *)
(***************************************************************************)
Overlaps(e, sp) == e.start < sp.end /\ sp.start < e.end

\* C16: redacted text is stable with respect to its placeholders: no rule
\* of the registry matches a substring that overlaps a placeholder "<T>" of
\* a registry type T, neither in a text that already holds one nor in the
\* output of an earlier detect.
C16_PlaceholdersNotRematched ==
    /\ pc \in {"secondCall", "redetected"} =>
          \A sp \in TokenSpans(text) : \A i \in 1..Len(entities) :
             ~Overlaps(entities[i], sp)
    /\ pc = "redetected" =>
          \A sp \in TokenSpans(result.text) : \A i \in 1..Len(regexEntities) :
             ~Overlaps(regexEntities[i], sp)

\* The first call replaced an e-mail address directly followed by "@ybl";
\* the second call ran over the text with the placeholder.
C16_Witness ==
    /\ pc = "redetected"
    /\ result.count = 1
    /\ result.entities[1].entity_type = EMAIL_ADDRESS
    /\ result.text = Token(EMAIL_ADDRESS) \o <<"@", "y", "b", "l">>
    /\ TokenSpans(result.text) = {[start |-> 0, end |-> Len(Token(EMAIL_ADDRESS))]}
    /\ regexEntities = <<>>

\* C17: detect depends on its arguments only: every rule's regex has
\* lastIndex 0 when detectWithRegex is entered and when it returns, every
\* call returns what the rules give for its text alone, and a call on the
\* text of the first call returns what the first call returned, whatever
\* calls happened in between.
C17_NoStateAcrossCalls ==
    /\ pc \in {"regexCall", "regexDone"} =>
          lastIndex = [p \in 1..Len(PATTERNS) |-> 0]
    /\ pc = "regexDone" =>
          /\ regexEntities = detectWithRegex(text)
          /\ \A ner \in NerChoices(text) :
                anonymize(text, regexEntities \o NerEntitiesOf(ner, text)) =
                   detect(text, ner)
          /\ (result # NoResult /\ result.text = text) =>
                regexEntities = result.entities

\* A later call on the text of the first call has returned, with a match.
C17_Witness ==
    /\ pc = "regexDone"
    /\ result # NoResult
    /\ result.count >= 2
    /\ result.text = text
    /\ regexEntities # <<>>
    /\ regexEntities = result.entities

(***************************************************************************)
(* Properties of the page script and the background                        *)
(***************************************************************************)
\* C18: fail-open: every intercepted fetch, XMLHttpRequest.send and
\* WebSocket.send is eventually handed to the original send function, once:
\* with the replaced body when the anonymizer answered modified, with the
\* original body otherwise (disabled, no response, timeout); no call is
\* dropped, blocked forever or sent twice.
C18_OneSendPerRequest ==
    \A r \in DOMAIN page.requests :
       LET q == page.requests[r]
       IN  /\ Len(q.sent) = (IF q.stage = "done" THEN 1 ELSE 0)
           /\ q.stage \in {"waiting", "settled", "done"}
           /\ q.stage = "waiting" <=> q.messageId \in page.pendingRequests
           /\ (q.stage = "done" /\ q.result.modified /\ q.result.text # q.body.text) =>
                 q.sent[1] = [kind |-> "replaced", text |-> q.result.text]
           /\ (q.stage = "done" /\ ~q.result.modified) =>
                 q.sent[1] = [kind |-> "original", text |-> q.body.text]
           /\ q.stage = "done" => q.sent[1].text \in {q.body.text, q.result.text}

C19_AlwaysResolves ==
    bg.outcome # "none" =>
        /\ bg.reply.state = "resolved"
        /\ bg.outcome \in {"disabled", "throws", "no_response", "proxy_502"} =>
              /\ DOMAIN bg.reply.value = {"text", "modified", "error"}
              /\ bg.reply.value.text = bg.reqText
              /\ bg.reply.value.modified = FALSE
        /\ bg.outcome = "result" =>
              /\ bg.reply.value.text = bg.detected.text
              /\ bg.reply.value.modified = (bg.detected.count > 0)
              /\ bg.reply.value.count = bg.detected.count
              /\ bg.reply.value.entities = bg.detected.entities

\* After a call that redacted, a later call hit a thrown error and answered
\* with the text it was given.
C19_Witness ==
    /\ bg.totalRedactions > 0
    /\ bg.enabled
    /\ bg.outcome = "throws"
    /\ bg.reqText # <<>>
    /\ bg.reply = [state |-> "resolved",
                   value |-> [text |-> bg.reqText, modified |-> FALSE, error |-> "error"]]

(***************************************************************************)
(* Properties of the validators                                            *)
(***************************************************************************)
\* The digits of s, in order.
DigitsOnly(s) == SelectSeq(s, LAMBDA c : c \in Digit)

\* The weight of digit value d at place k counted from the right (k = 1 is
\* the last digit): every second digit is doubled, 9 subtracted above 9.
PlaceValue(k, d) ==
    IF k % 2 = 1 THEN d
    ELSE IF 2 * d > 9 THEN 2 * d - 9 ELSE 2 * d

RECURSIVE PlaceSum(_, _)
PlaceSum(ds, k) ==
    IF k > Len(ds) THEN 0
    ELSE PlaceValue(k, DigitValue(ds[Len(ds) - k + 1])) + PlaceSum(ds, k + 1)

LuhnValid(s) ==
    /\ Len(DigitsOnly(s)) >= 13
    /\ Len(DigitsOnly(s)) <= 19
    /\ PlaceSum(DigitsOnly(s), 1) % 10 = 0

\* C20: luhn(s) is true exactly when s, its non-digits removed, has 13 to 19
\* digits and a Luhn sum of 0 modulo 10; a number luhn accepts is rejected
\* once any one digit is changed; luhn("4111111111111111") is true and
\* luhn("4111111111111112") is false.
C20_LuhnAcceptsExactlyValid ==
    /\ [](luhn(text) <=> LuhnValid(text))
    /\ [](pc \in {"luhnTrue0", "luhnTrue1"} => luhn(text))
    /\ [](pc \in {"luhnFalse0", "luhnFalse1"} => ~luhn(text))
    /\ [](text = Visa16 => pc \notin {"luhnFalse0", "luhnFalse1"})
    /\ [](text = Visa16Off => pc \notin {"luhnTrue0", "luhnTrue1"})
    /\ [][(pc = "luhnTrue0" /\ pc' = "luhnCall1") => ~luhn(text')]_vars

\* The last digit of the accepted 4111111111111111 was changed to 2 and the
\* new number rejected.
C20_Witness ==
    /\ pc = "luhnFalse1"
    /\ text = Visa16Off

\* The fold over the digits from the right: place k = 1 is the last digit
\* and uses row (k - 1) mod 8 of the permutation table.
RECURSIVE FoldTo(_, _)
FoldTo(ds, k) ==
    IF k = 0 THEN 0
    ELSE VerhoeffD[FoldTo(ds, k - 1) + 1]
                  [VerhoeffP[((k - 1) % 8) + 1][DigitValue(ds[Len(ds) - k + 1]) + 1] + 1]

IsPalindrome(ds) == \A i \in 1..Len(ds) : ds[i] = ds[Len(ds) + 1 - i]

VerhoeffValid(s) ==
    LET ds == DigitsOnly(s)
    IN  /\ Len(ds) = 12
        /\ DigitValue(ds[1]) >= 2
        /\ ~IsPalindrome(ds)
        /\ FoldTo(ds, Len(ds)) = 0

\* C21: verhoeff(s) is true only for 12-digit strings whose first digit is
\* at least 2, which are not palindromes and whose fold from the rightmost
\* digit ends at 0; changing any one digit of an accepted number gives
\* false, every 12-digit palindrome gives false and every number starting
\* with 0 or 1 gives false.
C21_VerhoeffAcceptsOnlyValid ==
    /\ [](verhoeff(text) <=> VerhoeffValid(text))
    /\ [](pc \in {"verhoeffTrue0", "verhoeffTrue1"} => verhoeff(text))
    /\ [](pc \in {"verhoeffFalse0", "verhoeffFalse1"} => ~verhoeff(text))
    /\ []((Len(DigitsOnly(text)) = 12 /\ IsPalindrome(DigitsOnly(text))) =>
             pc \notin {"verhoeffTrue0", "verhoeffTrue1"})
    /\ []((text # <<>> /\ text[1] \in {"0", "1"}) =>
             pc \notin {"verhoeffTrue0", "verhoeffTrue1"})
    /\ [][(pc = "verhoeffTrue0" /\ pc' = "verhoeffCall1") => ~verhoeff(text')]_vars

\* The last digit of the accepted 234567890124 was changed to 5 and the new
\* number rejected.
C21_Witness ==
    /\ pc = "verhoeffFalse1"
    /\ text = [Aadhaar12 EXCEPT ![12] = "5"]
    /\ VerhoeffValid(Aadhaar12)

SsnWellFormed(s) ==
    LET ds == DigitsOnly(s)
    IN  /\ Len(ds) = 9
        /\ SubSeq(ds, 1, 3) # <<"0", "0", "0">>
        /\ SubSeq(ds, 1, 3) # <<"6", "6", "6">>
        /\ ds[1] # "9"
        /\ SubSeq(ds, 4, 5) # <<"0", "0">>
        /\ SubSeq(ds, 6, 9) # <<"0", "0", "0", "0">>

\* C22: validateSSN(s) is true exactly when s has 9 digits, the area (first
\* three) is not 000, not 666 and below 900, the group (next two) is not 00
\* and the serial (last four) is not 0000.
C22_SsnAcceptsExactlyValid ==
    /\ validateSSN(text) <=> SsnWellFormed(text)
    /\ pc = "ssnTrue" => SsnWellFormed(text)
    /\ pc = "ssnFalse" => ~SsnWellFormed(text)

\* Area 900 with a good group and serial was rejected.
C22_Witness ==
    /\ pc = "ssnFalse"
    /\ text = <<"9", "0", "0", "-", "4", "5", "-", "6", "7", "8", "9">>

(***************************************************************************)
(* Properties of contextBoost                                              *)
(***************************************************************************)
\* Keyword kw stands in t at offset i, letter case apart.
OccursAt(t, kw, i) ==
    /\ i + Len(kw) <= Len(t)
    /\ \A j \in 1..Len(kw) : LowerChar(t[i + j]) = kw[j]

\* The occurrences of the keywords that lie wholly inside the window.
OccurrencesInWindow(t, start, end, keywords) ==
    {<<w, i>> \in (1..Len(keywords)) \X (0..Len(t)) :
        /\ i >= Max(0, start - 50)
        /\ i + Len(keywords[w]) <= Min(Len(t), end + 50)
        /\ OccursAt(t, keywords[w], i)}

KeywordsOf(entity_type) ==
    LET p == CHOOSE p \in 1..Len(PATTERNS) : PATTERNS[p].entity = entity_type
    IN  PATTERNS[p].context

SpansOverlap(a, b) == a.start < b.end /\ b.start < a.end

\* C24: no detected candidate is left wholly unredacted: every candidate
\* handed to anonymize is among the resolved entities or overlaps at least
\* one of them, so part of its characters is replaced.
C24_EveryCandidateTouched ==
    pc = "done" =>
        \A i \in 1..Len(entities) :
            \E j \in 1..Len(resolved) :
                \/ resolved[j] = entities[i]
                \/ SpansOverlap(entities[i], resolved[j])

\* The accepted entities once the first k sorted candidates have been seen.
AcceptedAfter(sorted, k) == Sweep(SubSeq(sorted, 1, k), 2, <<sorted[1]>>)

Last(s) == s[Len(s)]

\* One step of the pass decided by the candidate and the last accepted
\* entity alone.
GreedyStep(acc, c) ==
    IF c.start < Last(acc).end
    THEN IF \/ c.score > Last(acc).score
            \/ /\ c.score = Last(acc).score
               /\ c.end - c.start > Last(acc).end - Last(acc).start
         THEN SubSeq(acc, 1, Len(acc) - 1) \o <<c>>
         ELSE acc
    ELSE acc \o <<c>>

InSeq(x, s) == \E i \in 1..Len(s) : s[i] = x

\* C25: resolveOverlaps is one left-to-right pass over the candidates sorted
\* by start ascending, then score descending; each candidate is compared
\* with the last accepted entity only, and a candidate that was displaced or
\* rejected is never reinstated, also when the entity that beat it is
\* displaced later (A = [0,2) at .90, B = [1,3) at .95, C = [2,4) at .99
\* give C alone).
C25_GreedySinglePass ==
    (pc = "done" /\ Len(entities) >= 1) =>
        \A sorted \in {SortedEntities(entities)} :
           /\ \A i, j \in 1..Len(sorted) :
                 i < j => \/ sorted[i].start < sorted[j].start
                          \/ /\ sorted[i].start = sorted[j].start
                             /\ sorted[i].score >= sorted[j].score
           /\ resolved = AcceptedAfter(sorted, Len(sorted))
           /\ \A k \in 1..(Len(sorted) - 1) :
                 /\ AcceptedAfter(sorted, k + 1) =
                       GreedyStep(AcceptedAfter(sorted, k), sorted[k + 1])
                 /\ \A i \in 1..k :
                       ~InSeq(sorted[i], AcceptedAfter(sorted, k)) =>
                          ~InSeq(sorted[i], resolved)
           /\ (\E a, b, c \in 1..Len(entities) :
                  /\ Len(entities) = 3
                  /\ [s |-> entities[a].start, e |-> entities[a].end,
                      p |-> entities[a].score] = [s |-> 0, e |-> 2, p |-> 90]
                  /\ [s |-> entities[b].start, e |-> entities[b].end,
                      p |-> entities[b].score] = [s |-> 1, e |-> 3, p |-> 95]
                  /\ [s |-> entities[c].start, e |-> entities[c].end,
                      p |-> entities[c].score] = [s |-> 2, e |-> 4, p |-> 99])
                 => (Len(resolved) = 1 /\ resolved[1].start = 2 /\ resolved[1].score = 99)

\* A, B and C of the example: only C is left, A overlaps nothing that is.
C25_Witness ==
    /\ pc = "done"
    /\ Len(entities) = 3
    /\ <<entities[1].start, entities[1].end, entities[1].score>> = <<0, 2, 90>>
    /\ <<entities[2].start, entities[2].end, entities[2].score>> = <<1, 3, 95>>
    /\ <<entities[3].start, entities[3].end, entities[3].score>> = <<2, 4, 99>>
    /\ Len(resolved) = 1
    /\ resolved[1] = entities[3]

(***************************************************************************)
(* Properties of replaceWith                                               *)
(***************************************************************************)
\* C26: after replaceWith(t) the text parts of the rewritten body joined
\* with "\n" equal t, and the parts that are not text and the other fields
\* are as they were.
C26_SpliceLosesNothing ==
    pc = "replaced" =>
        /\ combinedText(page.body.parts) = result.text
        /\ Len(page.body.parts) = Len(page.original.parts)
        /\ \A i \in 1..Len(page.original.parts) :
              ~IsString(page.original.parts[i]) =>
                  page.body.parts[i] = page.original.parts[i]
        /\ page.body.model = page.original.model

(***************************************************************************)
(* Properties of sendToProxy and its listener                              *)
(***************************************************************************)
\* The calls of sendToProxy among the requests of the page.
ProxyCalls(p) == {r \in DOMAIN p.requests : p.requests[r].messageId # 0}

\* A call is pending exactly while its entry is in pendingRequests.
PendingIffWaiting ==
    \A r \in ProxyCalls(page) :
        page.requests[r].messageId \in page.pendingRequests <=>
            page.requests[r].stage = "waiting"

\* A step resolves a waiting call with a delivered answer that carries its
\* id, or with the timeout answer of its own text.
ResolvedByOwnAnswer ==
    \A r \in ProxyCalls(page) :
        (page.requests[r].stage = "waiting" /\ page'.requests[r].stage # "waiting") =>
            /\ page'.requests[r].stage = "settled"
            /\ page.requests[r].messageId \notin page'.pendingRequests
            /\ \/ \E msg \in page.inbox \ page'.inbox :
                     /\ msg.messageId = page.requests[r].messageId
                     /\ page'.requests[r].result = msg.response
               \/ /\ page.requests[r].messageId \in page.timers \ page'.timers
                  /\ page.inbox \cap {m \in page.inbox :
                                         m.messageId = page.requests[r].messageId}
                        \subseteq page'.inbox
                  /\ page'.requests[r].result =
                        TimeoutAnswer(page.requests[r].body.text)
            /\ \A q \in ProxyCalls(page) \ {r} :
                  page'.requests[q] = page.requests[q]

\* A call that has been resolved keeps its result whatever arrives later.
ResolvedOnce ==
    \A r \in ProxyCalls(page) :
        page.requests[r].stage # "waiting" =>
            /\ page'.requests[r].stage # "waiting"
            /\ page'.requests[r].result = page.requests[r].result

\* C27: each sendToProxy call is resolved exactly once, by the first answer
\* that carries its messageId or else by the timeout with the original text,
\* modified false and error "timeout"; its entry leaves pendingRequests at
\* that moment; an answer after the timeout or a second answer with the same
\* id is ignored, and no answer resolves the promise of another call.
C27_ResolvedExactlyOnce ==
    /\ []PendingIffWaiting
    /\ [][ResolvedByOwnAnswer /\ ResolvedOnce]_vars

\* A call resolved by its timeout while an answer with its id is still on
\* the way, and a second call still pending.
C27_Witness ==
    \E r \in ProxyCalls(page) :
        /\ page.requests[r].stage = "done"
        /\ page.requests[r].result = TimeoutAnswer(UserText)
        /\ \E msg \in page.inbox :
              /\ msg.messageId = page.requests[r].messageId
              /\ msg.response.modified
        /\ \E q \in ProxyCalls(page) : page.requests[q].stage = "waiting"

(***************************************************************************)
(* Properties of the patched WebSocket send                                *)
(***************************************************************************)
\* The calls of ws.send among the requests of the page, in call order.
WsCalls(p) == {r \in DOMAIN p.requests : p.requests[r].channel = "ws"}

\* C28: the messages of a WebSocket reach the original send in the order of
\* the calls of ws.send: a message has not been passed to the original send
\* while one sent before it has not.
C28_WsOrderKept ==
    \A r1, r2 \in WsCalls(page) :
        (r1 < r2 /\ page.requests[r2].sent # <<>>) => page.requests[r1].sent # <<>>

(***************************************************************************)
(* Properties of handleAnonymize while the extension is disabled           *)
(***************************************************************************)
\* C30: an anonymize request handled while enabled is false is answered with
\* { text: the text unchanged, modified: false, error: "disabled" } before
\* the detector or the proxy is asked, and totalRedactions, redactionLog and
\* the badge stay as they were.
C30_DisabledLeavesNoTrace ==
    [][(~bg.enabled /\ LiteHandleAnonymize) =>
          /\ bg'.reply = Resolved([text |-> text, modified |-> FALSE, error |-> "disabled"])
          /\ bg'.outcome = "disabled"
          /\ bg'.detected = bg.detected
          /\ bg'.totalRedactions = bg.totalRedactions
          /\ bg'.redactionLog = bg.redactionLog
          /\ bg'.badge = bg.badge
          /\ bg'.enabled = bg.enabled
          /\ worker' = worker
          /\ proxy' = proxy]_vars

\* A request answered while disabled, after earlier requests were redacted
\* and counted.
C30_Witness ==
    /\ ~bg.enabled
    /\ bg.outcome = "disabled"
    /\ bg.reqText = Segments[1]
    /\ bg.reply = Resolved([text |-> Segments[1], modified |-> FALSE, error |-> "disabled"])
    /\ bg.totalRedactions > 0
    /\ Len(bg.redactionLog) > 0
    /\ bg.detectorReady
    /\ bg.badge.text = <<"O", "F", "F">>

(***************************************************************************)
(* Properties of the bridge of the content script                          *)
(***************************************************************************)
\* The FROM_BACKGROUND messages posted with the id of call i.
PostedFor(i) ==
    {k \in DOMAIN page.posted : page.posted[k].messageId = page.calls[i].messageId}

\* The response the claim names for the path call i took.
NamedResponse(c, response) ==
    IF c.relay.kind = "answer"
    THEN IF c.relay.value = Undefined
         THEN response = [text |-> c.payload.text, modified |-> FALSE,
                          error |-> "no_response"]
         ELSE response = c.relay.value
    ELSE IF c.direct.kind = "throws"
    THEN /\ DOMAIN response = {"text", "modified", "error"}
         /\ response.text = c.payload.text
         /\ response.modified = FALSE
    ELSE IF c.direct.status = 200
    THEN response = [text |-> c.direct.body.text, modified |-> c.direct.body.count > 0,
                     count |-> c.direct.body.count, entities |-> c.direct.body.entities]
    ELSE /\ response.text = c.payload.text
         /\ response.modified = FALSE

OnePostPerCall ==
    \A i \in DOMAIN page.calls :
        /\ Cardinality(PostedFor(i)) = (IF page.calls[i].stage = "done" THEN 1 ELSE 0)
        /\ \A k \in PostedFor(i) :
              /\ page.posted[k].response # Undefined
              /\ NamedResponse(page.calls[i], page.posted[k].response)

\* C29: for each FROM_PAGE message the bridge posts exactly one
\* FROM_BACKGROUND message with the same messageId and a response that is
\* not empty: the answer of the background, else the answer of the direct
\* proxy call, else { text: payload.text, modified: false, error }; a proxy
\* status that is not OK and an empty answer of the background give the
\* original text with modified false.
C29_OneAnswerPerMessage ==
    /\ []OnePostPerCall
    /\ \A i \in 1..MaxRequests :
          (Len(page.calls) >= i) ~> (Len(page.calls) >= i /\ page.calls[i].stage = "done")

\* One message answered with the default for an empty answer of the
\* background, another through the direct call with a proxy status 502.
C29_Witness ==
    \E i, j \in DOMAIN page.calls :
        /\ page.calls[i].relay = [kind |-> "answer", value |-> Undefined]
        /\ page.calls[i].stage = "done"
        /\ page.calls[j].stage = "done"
        /\ page.calls[j].direct.kind = "reply"
        /\ page.calls[j].direct.status = 502
        /\ \E k \in PostedFor(j) :
              page.posted[k].response =
                  [text |-> page.calls[j].payload.text, modified |-> FALSE,
                   error |-> "proxy_502"]

(***************************************************************************)
(* Properties of the background with requests in flight                    *)
(***************************************************************************)
\* C31: while enabled is false no anonymize request changes totalRedactions
\* or redactionLog and no anonymize response has modified true, the requests
\* that were waiting for the detector when the extension was disabled
\* included.
C31_DisabledStopsCounting ==
    [][(~bg.enabled /\ DetectorSettles) =>
          /\ bg'.totalRedactions = bg.totalRedactions
          /\ bg'.redactionLog = bg.redactionLog
          /\ ~bg'.completed[Len(bg'.completed)].value.modified]_vars

\* The log entries are in the order of their arrival.
InArrivalOrder(log) ==
    \A i, j \in 1..Len(log) : i < j => log[i].timestamp < log[j].timestamp

\* A step that pushes onto a log of 200 entries leaves the 99 newest of them
\* and the new entry; any other push appends.
PushCutsToHundred ==
    (bg'.clock # bg.clock) =>
        IF Len(bg.redactionLog) = 200
        THEN /\ Len(bg'.redactionLog) = 100
             /\ SubSeq(bg'.redactionLog, 1, 99) = SubSeq(bg.redactionLog, 102, 200)
             /\ bg'.redactionLog[100].timestamp = bg'.clock
        ELSE /\ Len(bg'.redactionLog) = Len(bg.redactionLog) + 1
             /\ SubSeq(bg'.redactionLog, 1, Len(bg.redactionLog)) = bg.redactionLog

\* The log changes only by the push of a result with count > 0 and by
\* clearLog.
OnlyCountedLogged ==
    (bg'.redactionLog # bg.redactionLog) =>
        \/ /\ bg'.clock # bg.clock
           /\ bg'.redactionLog[Len(bg'.redactionLog)].count > 0
           /\ bg'.completed[Len(bg'.completed)].count =
                 bg'.redactionLog[Len(bg'.redactionLog)].count
        \/ bg'.redactionLog = <<>>

\* The log of the last getState: the 50 newest entries at most.
StateHoldsLastFifty ==
    (bg'.state # bg.state) =>
        /\ Len(bg'.state.value.redactionLog) <= 50
        /\ \E k \in 0..Len(bg.redactionLog) :
              /\ k = Len(bg'.state.value.redactionLog)
              /\ bg'.state.value.redactionLog =
                    SubSeq(bg.redactionLog, Len(bg.redactionLog) - k + 1,
                           Len(bg.redactionLog))
              /\ k = 50 \/ k = Len(bg.redactionLog)

\* C32: after any sequence of anonymize, setEnabled, getState and clearLog
\* messages redactionLog holds at most 200 entries, a push above 200 cuts it
\* to its newest 100, the entries are in arrival order, only results with
\* count > 0 are logged, and getState returns the newest 50 entries at most.
C32_LogBounded ==
    /\ [](Len(bg.redactionLog) <= 200 /\ InArrivalOrder(bg.redactionLog))
    /\ [][PushCutsToHundred /\ OnlyCountedLogged /\ StateHoldsLastFifty]_vars

\* The log was cut to 100 entries by a push onto 200, and getState then
\* returned the newest 50 of them.
C32_Witness ==
    /\ Len(bg.redactionLog) = 100
    /\ bg.redactionLog[1].timestamp = 102
    /\ bg.redactionLog[100].timestamp = 201
    /\ bg.state.state = "resolved"
    /\ Len(bg.state.value.redactionLog) = 50
    /\ bg.state.value.redactionLog[1].timestamp = 152

\* The sum of count over the entries a..b of a log.
RECURSIVE SumCounts(_, _, _)
SumCounts(log, a, b) ==
    IF a > b THEN 0
    ELSE IF a = b THEN log[a].count
    ELSE SumCounts(log, a, (a + b) \div 2) + SumCounts(log, ((a + b) \div 2) + 1, b)

TotalIsSumSinceClear ==
    /\ bg.totalRedactions = bg.sinceClear
    /\ bg.totalRedactions >= 0
    /\ bg.totalRedactions >= SumCounts(bg.redactionLog, 1, Len(bg.redactionLog))

ClearLogResets ==
    ClearLogMessage =>
        /\ bg'.totalRedactions = 0
        /\ bg'.redactionLog = <<>>
        /\ bg'.enabled = bg.enabled

\* C33: after any sequence of messages totalRedactions is the sum of count
\* over the successful anonymize results completed since the last clearLog
\* or since the start, it is not negative and not below the sum of the
\* counts of the entries in redactionLog, and clearLog sets totalRedactions
\* to 0 and redactionLog to empty and leaves enabled as it is.
C33_TotalIsSum ==
    /\ []TotalIsSumSinceClear
    /\ [][ClearLogResets]_vars

\* A result counted before a clearLog and a result counted after it, while
\* the extension is disabled: the total is the count of the second alone.
C33_Witness ==
    /\ Len(bg.completed) = 2
    /\ bg.completed[1].count = 1
    /\ bg.completed[2].count = 1
    /\ bg.clock = 202
    /\ bg.totalRedactions = 1
    /\ Len(bg.redactionLog) = 1
    /\ ~bg.enabled

(***************************************************************************)
(* Properties of the candidates of detectWithRegex                         *)
(***************************************************************************)
\* The least number of characters a regex consumes.
RECURSIVE MinLen(_)
RECURSIVE MinLenSum(_, _)
RECURSIVE MinLenLeast(_, _)
MinLen(n) ==
    CASE n.k = "cls" -> 1
      [] n.k = "wb" -> 0
      [] n.k = "cat" -> MinLenSum(n.parts, 1)
      [] n.k = "alt" -> MinLenLeast(n.alts, 1)
      [] n.k = "rep" -> n.min * MinLen(n.of)
MinLenSum(parts, i) ==
    IF i > Len(parts) THEN 0 ELSE MinLen(parts[i]) + MinLenSum(parts, i + 1)
MinLenLeast(alts, i) ==
    IF i = Len(alts) THEN MinLen(alts[i])
    ELSE LET a == MinLen(alts[i])
             b == MinLenLeast(alts, i + 1)
         IN  IF a < b THEN a ELSE b

CandidateWellFormed(e) ==
    /\ 0 <= e.start
    /\ e.start < e.end
    /\ e.end <= Len(text)
    /\ e.original_text = [k \in 1..(e.end - e.start) |-> text[e.start + k]]
    /\ \E p \in 1..Len(PATTERNS) : e.entity_type = PATTERNS[p].entity

\* The candidate pushed in a step carries the entity of the rule being
\* scanned and lies where that rule's regex matched.
PushedByCurrentRule ==
    (Len(regexEntities') = Len(regexEntities) + 1) =>
        \A e \in {regexEntities'[Len(regexEntities')]} :
            /\ e.entity_type = PATTERNS[patIdx].entity
            /\ e.start >= lastIndex[patIdx]
            /\ e.end = lastIndex'[patIdx]
            /\ e.end \in {MatchNode(PATTERNS[patIdx].regex, text, e.start)[k] :
                             k \in 1..Len(MatchNode(PATTERNS[patIdx].regex, text, e.start))}

NoEmptyMatch ==
    /\ \A p \in 1..Len(PATTERNS) : MinLen(PATTERNS[p].regex) >= 1
    /\ (AtExec /\ CurrentMatch # <<>>) => CurrentMatch[1].index < CurrentMatch[1].end

\* C34: every candidate of detectWithRegex has 0 <= start < end <= length of
\* the text and original_text equal to text[start, end), its entity_type is
\* the entity of the rule that matched, and no rule matches the empty
\* string.
C34_CandidatesWellFormed ==
    /\ [](\A n \in 1..Len(regexEntities) : CandidateWellFormed(regexEntities[n]))
    /\ []NoEmptyMatch
    /\ [][PushedByCurrentRule]_vars

\* A scan that ended with candidates of two rules, the second one not at
\* the start of the text.
C34_Witness ==
    /\ pc = "regexDone"
    /\ Len(regexEntities) = 2
    /\ regexEntities[1].entity_type # regexEntities[2].entity_type
    /\ regexEntities[1].start > 0
    /\ regexEntities[1].end = Len(text)
    /\ regexEntities[2].start = 0

(***************************************************************************)
(* Termination of detectWithRegex                                          *)
(***************************************************************************)
\* A match moves the scan position of its rule forward, inside the text.
MatchAdvances ==
    (AtExec /\ pc' = "regexExec") =>
        /\ lastIndex'[patIdx] > lastIndex[patIdx]
        /\ lastIndex'[patIdx] <= Len(text)
        /\ patIdx' = patIdx

\* The rules are scanned one after the other, each once.
RulesInTurn ==
    /\ patIdx' \in {patIdx, patIdx + 1}
    /\ patIdx' <= Len(PATTERNS)
    /\ (patIdx' # patIdx /\ patIdx > 0) => (AtExec /\ CurrentMatch = <<>>)

\* How far the call is inside the body of the for loop.
Phase(p) ==
    CASE p = "regexCall" -> 3
      [] p = "regexReset" -> 2
      [] p = "regexExec" -> 1
      [] p = "regexDone" -> 0

\* Every step brings the call nearer to its return: the next rule, or the
\* next statement for the same rule, or a scan position further on.
StepsTowardsReturn ==
    \/ patIdx' > patIdx
    \/ patIdx' = patIdx /\ Phase(pc') < Phase(pc)
    \/ patIdx' = patIdx /\ pc' = pc /\ lastIndex'[patIdx] > lastIndex[patIdx]

\* Until the return one of the steps can be taken: the call is at one of
\* its statements, inside the loop there is a rule to scan, and exec gives
\* null or a match.
NeverStuck ==
    /\ pc \in {"regexCall", "regexReset", "regexExec", "regexDone"}
    /\ pc \in {"regexReset", "regexExec"} => patIdx \in 1..Len(PATTERNS)
    /\ AtExec => (CurrentMatch = <<>> \/ Len(CurrentMatch) = 1)

\* C36: detectWithRegex terminates on every text: the scan position of a
\* rule grows with every match and stays inside the text, so the loop of a
\* rule ends after at most length-of-text matches, and the call returns when
\* every rule has been scanned once.
C36_ScanTerminates ==
    /\ [][MatchAdvances /\ RulesInTurn /\ StepsTowardsReturn]_vars
    /\ [](\A p \in 1..Len(PATTERNS) : lastIndex[p] \in 0..Len(text))
    /\ [](patIdx \in 0..Len(PATTERNS))
    /\ [](pc = "regexDone" => patIdx = Len(PATTERNS))
    /\ []NeverStuck

\* The call returned after one rule matched twice in the text.
C36_Witness ==
    /\ pc = "regexDone"
    /\ patIdx = Len(PATTERNS)
    /\ \E i, j \in 1..Len(regexEntities) :
          /\ regexEntities[i].entity_type = US_SSN
          /\ regexEntities[j].entity_type = US_SSN
          /\ regexEntities[i].end < regexEntities[j].start

(***************************************************************************)
(* Properties of resolveOverlaps as a selection                            *)
(***************************************************************************)
\* Each entity of the output is a candidate of the input, field by field,
\* and no two entities of the output come from one candidate.
SelectedFromInput ==
    \E f \in [1..Len(resolved) -> 1..Len(entities)] :
        /\ \A i, j \in 1..Len(resolved) : i # j => f[i] # f[j]
        /\ \A j \in 1..Len(resolved) :
              /\ resolved[j].entity_type = entities[f[j]].entity_type
              /\ resolved[j].start = entities[f[j]].start
              /\ resolved[j].end = entities[f[j]].end
              /\ resolved[j].score = entities[f[j]].score
              /\ resolved[j].original_text = entities[f[j]].original_text
              /\ DOMAIN resolved[j] = DOMAIN entities[f[j]]

\* C35: resolveOverlaps only selects: every entity of its output is one of
\* the candidates with entity_type, start, end, score and original_text as
\* they were, no candidate is in the output twice, and the list of the
\* caller keeps its order and its contents.
C35_OnlySelects ==
    /\ [](pc = "done" =>
             /\ SelectedFromInput
             /\ \A i, j \in 1..Len(resolved) : i # j => resolved[i] # resolved[j])
    /\ [][(pc = "build" /\ pc' = "done") => entities' = entities]_vars

\* Three candidates given out of order, one of them twice: two entities
\* are selected.
C35_Witness ==
    /\ pc = "done"
    /\ Len(entities) = 3
    /\ entities[1] = entities[3]
    /\ entities[2].end <= entities[1].start
    /\ Len(resolved) = 2
    /\ resolved[1] = entities[2]
    /\ resolved[2] = entities[1]

(***************************************************************************)
(* Properties of PUT /config under concurrent requests                     *)
(***************************************************************************)
\* What a reader was given while one PUT was the only one: the
\* configuration with none or with all of the updates of that PUT.
SeesNoneOrAll ==
    (proxy.seen.kind # "none" /\ Len(proxy.seen.puts) = 1) =>
        \A p \in {proxy.seen.puts[1]} :
            \E cfg \in {p.before, SetEntities(p.before, p.updates)} :
                \/ proxy.seen.kind = "list" /\ proxy.seen.list = EnabledEntities(cfg)
                \/ proxy.seen.kind = "map" /\
                      \E written \in SUBSET ToggleTypes :
                          proxy.seen.map =
                              [e \in DOMAIN cfg |-> IF e \in written THEN ~cfg[e] ELSE cfg[e]]

\* Two PUTs that have both ended leave what one of their two serial orders
\* gives.
EqualsSerialOrder ==
    (Len(proxy.puts) = 2 /\ proxy.puts[1].done /\ proxy.puts[2].done) =>
        \A c0 \in {proxy.puts[1].before} :
            config \in {SetEntities(SetEntities(c0, proxy.puts[1].updates),
                                    proxy.puts[2].updates),
                        SetEntities(SetEntities(c0, proxy.puts[2].updates),
                                    proxy.puts[1].updates)}

\* C37: a PUT /config with several toggles is atomic for concurrent
\* requests: GetEntities and EnabledEntities see none or all of its updates,
\* two concurrent PUTs leave what one of the two serial orders gives, and a
\* write into the map returned by GetEntities does not change the
\* configuration.
C37_PutIsAtomic ==
    /\ []SeesNoneOrAll
    /\ []EqualsSerialOrder
    /\ [][CallerWritesMap => config' = config]_vars

====
